---- MODULE Spec2Model ----
(***************************************************************************)
(* Planning-document lifecycle of vibe-hacker (plugins/planning): the      *)
(* type registry, the locators, and the create / update-status / archive / *)
(* supersede / relate / append / edit-gate scripts, as a state machine     *)
(* over the planning directory.                                            *)
(*                                                                         *)
(* A file is a record: its directory (type, loc), its name (num, slug),    *)
(* its frontmatter (fm) and its body read through the body grammar that    *)
(* the scripts' regular expressions recognise (body).  Paths are taken     *)
(* relative to the project directory.                                      *)
(***************************************************************************)
EXTENDS Integers, Sequences, FiniteSets, TLC

VARIABLES files, config, today, last, numbersLog, appendLog, codec, upgrade, racers,
          pending

vars == <<files, config, today, last, numbersLog, appendLog, codec, upgrade, racers,
          pending>>

----------------------------------------------------------------------------
(* Bounds of the model *)

MaxFiles == 2
MaxDocs == 1
MaxDay == 1
MaxEntries == 2
MaxMarkers == 2
MaxCreates == 3
MaxLinks == 2
MaxKeys == 2
MaxManifest == 2
MaxRacers == 2

----------------------------------------------------------------------------
(* Document Type Registry: config.py *)

Types == {"adr", "fdp", "ap", "report"}

DEFAULT_TYPES ==
  [adr    |-> [prefix |-> "", idp |-> "ADR", initial |-> "proposed",
               editable |-> {"proposed"}, final |-> {"accepted"},
               archive_triggers |-> {"deprecated", "superseded"}],
   fdp    |-> [prefix |-> "FDP-", idp |-> "FDP", initial |-> "proposed",
               editable |-> {"proposed", "in progress"}, final |-> {"implemented"},
               archive_triggers |-> {"implemented", "abandoned"}],
   ap     |-> [prefix |-> "AP-", idp |-> "AP", initial |-> "active",
               editable |-> {"active"}, final |-> {"completed"},
               archive_triggers |-> {"completed", "abandoned"}],
   report |-> [prefix |-> "RPT-", idp |-> "RPT", initial |-> "draft",
               editable |-> {"draft"}, final |-> {"published"},
               archive_triggers |-> {"superseded", "obsoleted"}]]

get_type_config(t) == DEFAULT_TYPES[t]

(* str.lower(), str.title() and str.strip() on the strings of the model *)
LowerOf ==
  [s \in {"ACCEPTED", "In Progress", " Proposed", "Archived", "Superseded",
          "Proposed", "Accepted", "Deprecated", "Implemented", "Abandoned",
          "Active", "Completed", "Draft", "Published", "Obsoleted", "Unknown"} |->
     CASE s = "ACCEPTED" -> "accepted"
       [] s = "In Progress" -> "in progress"
       [] s = " Proposed" -> " proposed"
       [] s = "Archived" -> "archived"
       [] s = "Superseded" -> "superseded"
       [] s = "Proposed" -> "proposed"
       [] s = "Accepted" -> "accepted"
       [] s = "Deprecated" -> "deprecated"
       [] s = "Implemented" -> "implemented"
       [] s = "Abandoned" -> "abandoned"
       [] s = "Active" -> "active"
       [] s = "Completed" -> "completed"
       [] s = "Draft" -> "draft"
       [] s = "Published" -> "published"
       [] s = "Obsoleted" -> "obsoleted"
       [] s = "Unknown" -> "unknown"]

Lower(s) == IF s \in DOMAIN LowerOf THEN LowerOf[s] ELSE s

TitleOf ==
  [s \in {"proposed", "accepted", "deprecated", "superseded", "in progress",
          "implemented", "abandoned", "active", "completed", "draft",
          "published", "obsoleted", "archived", "bogus", " proposed", "unknown"} |->
     CASE s = "proposed" -> "Proposed"
       [] s = "accepted" -> "Accepted"
       [] s = "deprecated" -> "Deprecated"
       [] s = "superseded" -> "Superseded"
       [] s = "in progress" -> "In Progress"
       [] s = "implemented" -> "Implemented"
       [] s = "abandoned" -> "Abandoned"
       [] s = "active" -> "Active"
       [] s = "completed" -> "Completed"
       [] s = "draft" -> "Draft"
       [] s = "published" -> "Published"
       [] s = "obsoleted" -> "Obsoleted"
       [] s = "archived" -> "Archived"
       [] s = "bogus" -> "Bogus"
       [] s = " proposed" -> " Proposed"
       [] s = "unknown" -> "Unknown"]

Title(s) == IF Lower(s) \in DOMAIN TitleOf THEN TitleOf[Lower(s)] ELSE s

Strip(s) == CASE s = " proposed" -> "proposed"
              [] s = " Proposed" -> "Proposed"
              [] OTHER -> s

LowerAll(S) == {Lower(s) : s \in S}

is_status_editable(t, status) ==
  Lower(status) \in LowerAll(get_type_config(t).editable)

is_archive_trigger(t, status) ==
  Lower(status) \in LowerAll(get_type_config(t).archive_triggers)

get_valid_statuses(t) ==
  ({get_type_config(t).initial} \cup get_type_config(t).editable
     \cup get_type_config(t).final \cup get_type_config(t).archive_triggers) \ {""}

----------------------------------------------------------------------------
(* Document ids *)

NullId == [p |-> "", n |-> 0]

format_doc_id(t, n) == [p |-> get_type_config(t).idp, n |-> n]

(* str.upper() on an id: the prefix is the only part with letters *)
Upper(id) ==
  [id EXCEPT !.p = CASE @ = "adr" -> "ADR"
                     [] @ = "fdp" -> "FDP"
                     [] @ = "ap" -> "AP"
                     [] @ = "rpt" -> "RPT"
                     [] OTHER -> @]

(* the type whose id pattern matches the upper-cased id, "" when none does *)
parse_doc_id(id) ==
  IF \E t \in Types : get_type_config(t).idp = Upper(id).p
  THEN CHOOSE t \in Types : get_type_config(t).idp = Upper(id).p
  ELSE ""

----------------------------------------------------------------------------
(* Titles and slugs: new.py *)

Titles == {"Use X", "Archive Plan"}

slugify(title) == CASE title = "Use X" -> "use-x"
                    [] title = "Archive Plan" -> "archive-plan"
                    [] title = "New X!" -> "new-x"
                    [] OTHER -> ""

----------------------------------------------------------------------------
(* Frontmatter and body *)

(* .claude/vibe-hacker.json as the scripts read it: absent at first, and then
   the planning version is taken to be 0.1.0 *)
NoConfig == [exists |-> FALSE, version |-> "0.1.0"]

NoFrontmatter ==
  [present |-> FALSE, id |-> NullId, status |-> "", modified |-> 0,
   supersedes |-> NullId, superseded_by |-> NullId, related |-> <<>>]

(* The document a type's template yields: frontmatter with the defaults and
   the type's initial status, a Status section and further sections. *)
Template(t, n, day) ==
  [fm   |-> [present |-> TRUE, id |-> format_doc_id(t, n),
             status |-> get_type_config(t).initial, modified |-> day,
             supersedes |-> NullId, superseded_by |-> NullId, related |-> <<>>],
   body |-> [status |-> Title(get_type_config(t).initial), sections |-> TRUE,
             archived |-> 0, addenda |-> 0, entries |-> <<>>]]

Max(S) == IF S = {} THEN 0 ELSE CHOOSE m \in S : \A x \in S : x <= m

(* the digits '{number:03d}' writes: three, and four from 1000 on *)
format_width(n) == IF n < 1000 THEN 3 ELSE 4

(* A file's name is the type's prefix, its number written with width
   digits, a dash and the slug. *)
SamePath(f, g) ==
  /\ f.type = g.type /\ f.loc = g.loc /\ f.num = g.num /\ f.slug = g.slug
  /\ f.width = g.width

(* the name the type's filename format yields for n and slug is in use *)
PathExists(fs, t, loc, n, slug) ==
  \E f \in fs : /\ f.type = t /\ f.loc = loc /\ f.num = n /\ f.slug = slug
                /\ f.width = format_width(n)

(* Path.write_text: replaces the file at g's path *)
WriteFile(fs, g) == {f \in fs : ~SamePath(f, g)} \cup {g}

----------------------------------------------------------------------------
(* The outcome of the last invocation: the operation, its arguments, the
   error kind or "ok", and what it returned. *)

NoOp ==
  [op |-> "init", id |-> NullId, arg |-> "", opt |-> FALSE, targets |-> <<>>,
   result |-> "ok", status |-> "", flag |-> FALSE, num |-> 0,
   added |-> <<>>, present |-> <<>>]

Outcome(op, id, arg, result) ==
  [NoOp EXCEPT !.op = op, !.id = id, !.arg = arg, !.result = result]

----------------------------------------------------------------------------
(* new.py *)

(* a numbering that scans the active directory only *)
find_next_number_active_only(fs, t) ==
  Max({f.num : f \in {g \in fs : g.type = t /\ g.loc = "active"}}) + 1

(* a numbering that gives the greatest number again *)
find_next_number_greatest(fs, t) ==
  IF {g \in fs : g.type = t} = {} THEN 1
  ELSE Max({f.num : f \in {g \in fs : g.type = t}})

(* 1 + the greatest number among the type's files, active and archived *)
find_next_number(fs, t) ==
  Max({f.num : f \in {g \in fs : g.type = t}}) + 1

create_document(fs, t, title, day) ==
  LET n    == find_next_number(fs, t)
      slug == slugify(title)
      doc  == Template(t, n, day)
  IN  IF PathExists(fs, t, "active", n, slug)
      THEN [files |-> fs, result |-> "AlreadyExists", num |-> n, slug |-> slug]
      ELSE [files |-> WriteFile(fs, [type |-> t, loc |-> "active", num |-> n,
                                     width |-> format_width(n),
                                     slug |-> slug, fm |-> doc.fm, body |-> doc.body]),
            result |-> "ok", num |-> n, slug |-> slug]

RECURSIVE SumLen(_, _)
SumLen(log, S) ==
  IF S = {} THEN 0
  ELSE LET t == CHOOSE x \in S : TRUE IN Len(log[t]) + SumLen(log, S \ {t})

(* successful creates so far *)
Creates == SumLen(numbersLog, Types)

Appends == SumLen(appendLog, Types)

Create(t, title, cap) ==
  /\ Cardinality(files) < cap
  /\ Creates < MaxCreates
  /\ LET r == create_document(files, t, title, today)
     IN  /\ files' = r.files
         /\ last' = [Outcome("create", format_doc_id(t, r.num), title, r.result)
                       EXCEPT !.num = r.num]
         /\ numbersLog' = IF r.result = "ok"
                          THEN [numbersLog EXCEPT ![t] = Append(@, r.num)]
                          ELSE numbersLog
  /\ UNCHANGED <<pending, racers, codec, upgrade, config, today, appendLog>>

----------------------------------------------------------------------------
(* create_document of new.py run by several invocations at once: each one
   scans for the next number, looks whether its target exists, and writes,
   and the steps of one fall between the steps of another. *)

Racers == 1..MaxRacers

NoRacer == [pc |-> "idle", type |-> "", title |-> "", num |-> 0]

NoRacers == [r \in Racers |-> NoRacer]

(* the target path of an invocation *)
TargetExists(fs, c) == PathExists(fs, c.type, "active", c.num, slugify(c.title))

(* find_next_number: the directory and its archive/ are read *)
RaceScan(r, t, title) ==
  /\ racers[r].pc = "idle"
  /\ racers' = [racers EXCEPT ![r] = [pc |-> "scanned", type |-> t, title |-> title,
                                       num |-> find_next_number(files, t)]]
  /\ last' = [Outcome("scan", format_doc_id(t, find_next_number(files, t)), title, "ok")
                EXCEPT !.num = r]
  /\ UNCHANGED <<pending, codec, upgrade, config, files, today, numbersLog, appendLog>>

(* filepath.exists(): FileExistsError when the target is there *)
RaceCheck(r) ==
  /\ racers[r].pc = "scanned"
  /\ LET c == racers[r]
         found == TargetExists(files, c)
     IN  /\ racers' = [racers EXCEPT ![r].pc = IF found THEN "failed" ELSE "checked"]
         /\ last' = [Outcome("check", format_doc_id(c.type, c.num), c.title,
                             IF found THEN "AlreadyExists" ELSE "ok")
                       EXCEPT !.num = r]
  /\ UNCHANGED <<pending, codec, upgrade, config, files, today, numbersLog, appendLog>>

(* a write that fails when the target is there *)
RaceWriteExclusive(r) ==
  /\ racers[r].pc = "checked"
  /\ Creates < MaxCreates
  /\ LET c == racers[r]
         doc == Template(c.type, c.num, today)
         g == [type |-> c.type, loc |-> "active", num |-> c.num,
               width |-> format_width(c.num),
               slug |-> slugify(c.title), fm |-> doc.fm, body |-> doc.body]
     IN  IF TargetExists(files, c)
         THEN /\ files' = files
              /\ racers' = [racers EXCEPT ![r].pc = "failed"]
              /\ last' = [Outcome("create", format_doc_id(c.type, c.num), c.title,
                                  "AlreadyExists") EXCEPT !.num = r]
              /\ numbersLog' = numbersLog
         ELSE /\ Cardinality(files) < MaxFiles
              /\ files' = WriteFile(files, g)
              /\ racers' = [racers EXCEPT ![r].pc = "done"]
              /\ last' = [Outcome("create", format_doc_id(c.type, c.num), c.title, "ok")
                            EXCEPT !.num = r]
              /\ numbersLog' = [numbersLog EXCEPT ![c.type] = Append(@, c.num)]
  /\ UNCHANGED <<pending, codec, upgrade, config, today, appendLog>>

(* the template is read and filepath.write_text(content) replaces whatever
   is at the target *)
RaceWrite(r) ==
  /\ racers[r].pc = "checked"
  /\ Creates < MaxCreates
  /\ LET c == racers[r]
         doc == Template(c.type, c.num, today)
         g == [type |-> c.type, loc |-> "active", num |-> c.num,
               width |-> format_width(c.num),
               slug |-> slugify(c.title), fm |-> doc.fm, body |-> doc.body]
     IN  /\ Cardinality(WriteFile(files, g)) <= MaxFiles
         /\ files' = WriteFile(files, g)
         /\ racers' = [racers EXCEPT ![r].pc = "done"]
         /\ last' = [Outcome("create", format_doc_id(c.type, c.num), c.title, "ok")
                       EXCEPT !.num = r, !.flag = TargetExists(files, c)]
         /\ numbersLog' = [numbersLog EXCEPT ![c.type] = Append(@, c.num)]
  /\ UNCHANGED <<pending, codec, upgrade, config, today, appendLog>>

----------------------------------------------------------------------------
(* Document Locator.  A file whose name matches its type's pattern has a
   number greater than 0, written with width digits; a locator returns the
   files a directory scan can return first. *)

FindIn(fs, t, loc, n) ==
  {f \in fs : f.type = t /\ f.loc = loc /\ f.num = n /\ f.num > 0}

(* update-status.py and archive.py: the active directory only *)
find_document_active(fs, t, n) == FindIn(fs, t, "active", n)

(* a locator that scans archive/ before the active directory *)
find_document_archive_first(fs, t, n, include_archive) ==
  IF include_archive /\ FindIn(fs, t, "archive", n) # {} THEN FindIn(fs, t, "archive", n)
  ELSE FindIn(fs, t, "active", n)

(* edit.py, relate.py, supersede.py: the active directory, then archive/ *)
find_document(fs, t, n, include_archive) ==
  IF FindIn(fs, t, "active", n) # {} THEN FindIn(fs, t, "active", n)
  ELSE IF include_archive THEN FindIn(fs, t, "archive", n)
  ELSE {}

(* the names the pattern '{number:03d}-.*\.md' of append.py matches: the
   number as the filename format writes it *)
FindPadded(fs, t, loc, n) ==
  {f \in FindIn(fs, t, loc, n) : f.width = format_width(n)}

(* append.py: the same two directories, the number matched as three digits *)
append_find_document(fs, t, n) ==
  IF FindPadded(fs, t, "active", n) # {} THEN FindPadded(fs, t, "active", n)
  ELSE FindPadded(fs, t, "archive", n)

(* 'archive' in filepath.parts: a path component named archive *)
is_archived(f) == f.loc = "archive"

(* 'archive' in str(filepath): the substring anywhere in the path *)
SlugHasArchive(slug) == slug = "archive-plan"

PathStrHasArchive(f) == f.loc = "archive" \/ SlugHasArchive(f.slug)

(* the body's Status value, None ("") when the section is absent *)
extract_status_from_body(f) == Strip(f.body.status)

(* frontmatter status first, else the body's Status section, else Unknown *)
extract_status(f) ==
  IF f.fm.present THEN f.fm.status
  ELSE IF extract_status_from_body(f) # "" THEN extract_status_from_body(f)
  ELSE "Unknown"

----------------------------------------------------------------------------
(* update-status.py *)

(* a validation that accepts every status *)
validate_status_accept_all(t, s) == FALSE

(* a validation that lets through the editable statuses alone *)
validate_status_editable_only(t, s) == ~is_status_editable(t, s)

(* TRUE when the status is refused *)
validate_status(t, s) ==
  Strip(Lower(s)) \notin LowerAll(get_valid_statuses(t))

(* an update_status_in_content that writes the status as it was given *)
update_status_in_content_as_given(f, s, day) ==
  LET fm1 == IF f.fm.present
             THEN [f.fm EXCEPT !.status = s, !.modified = day]
             ELSE f.fm
  IN  IF f.body.status = ""
      THEN [ok |-> FALSE, file |-> f]
      ELSE [ok |-> TRUE,
            file |-> [f EXCEPT !.fm = fm1, !.body.status = s]]

(* an update_status_in_content that writes the frontmatter when the body
   has no Status section *)
update_status_in_content_frontmatter_only(f, s, day) ==
  LET fm1 == IF f.fm.present
             THEN [f.fm EXCEPT !.status = Lower(s), !.modified = day]
             ELSE f.fm
  IN  IF f.body.status = ""
      THEN [ok |-> TRUE, file |-> [f EXCEPT !.fm = fm1]]
      ELSE [ok |-> TRUE,
            file |-> [f EXCEPT !.fm = fm1, !.body.status = Title(s)]]

(* result.ok is FALSE when the body has no Status section *)
update_status_in_content(f, s, day) ==
  LET fm1 == IF f.fm.present
             THEN [f.fm EXCEPT !.status = Lower(s), !.modified = day]
             ELSE f.fm
  IN  IF f.body.status = ""
      THEN [ok |-> FALSE, file |-> f]
      ELSE [ok |-> TRUE,
            file |-> [f EXCEPT !.fm = fm1, !.body.status = Title(s)]]

UpdateStatus(id, s) ==
  LET t == parse_doc_id(id)
      fail(kind) == /\ files' = files
                    /\ last' = Outcome("update_status", id, s, kind)
  IN
  /\ IF t = "" THEN fail("InvalidId")
     ELSE IF validate_status(t, s) THEN fail("InvalidStatus")
     ELSE IF find_document_active(files, t, id.n) = {} THEN fail("NotFound")
     ELSE \E f \in find_document_active(files, t, id.n) :
            IF is_archived(f) THEN fail("AlreadyArchived")
            ELSE LET r == update_status_in_content(f, s, today)
                 IN  IF ~r.ok THEN fail("MalformedDocument")
                     ELSE /\ files' = WriteFile(files, r.file)
                          /\ last' = [Outcome("update_status", id, s, "ok")
                                        EXCEPT !.status = extract_status(f),
                                               !.flag = is_archive_trigger(t, s)]
  /\ UNCHANGED <<pending, racers, codec, upgrade, config, today, numbersLog, appendLog>>

----------------------------------------------------------------------------
(* archive.py *)

(* get_doc_types of archive.py knows adr, fdp and ap *)
archive_parse_doc_id(id) ==
  IF Upper(id).p \in {"ADR", "FDP", "AP"} THEN parse_doc_id(id) ELSE ""

(* update_status(filepath, "Archived"): rewrite the body's Status value and
   insert an Archived section after it when a later section exists *)
archive_update_status(f, new_status) ==
  LET hadText == f.body.archived > 0 \/ f.body.status = "Archived"
      nextSec == f.body.sections \/ f.body.archived > 0 \/ f.body.addenda > 0
  IN  [f EXCEPT !.body.status = new_status,
                !.body.archived =
                   IF (~hadText \/ new_status = "Archived") /\ nextSec
                   THEN @ + 1 ELSE @]

(* an archive that writes the archived file and leaves the active one *)
ArchiveCopying(id) ==
  LET t == archive_parse_doc_id(id)
      fail(kind) == /\ files' = files
                    /\ last' = Outcome("archive", id, "", kind)
  IN
  /\ IF t = "" THEN fail("InvalidId")
     ELSE IF find_document_active(files, t, id.n) = {} THEN fail("NotFound")
     ELSE \E f \in find_document_active(files, t, id.n) :
            IF PathStrHasArchive(f) THEN fail("AlreadyArchived")
            ELSE IF f.body.status = "" THEN fail("MalformedDocument")
            ELSE LET g == archive_update_status(f, "Archived")
                 IN  /\ g.body.archived <= MaxMarkers
                     /\ files' = WriteFile(files, g) \cup {[g EXCEPT !.loc = "archive"]}
                     /\ last' = Outcome("archive", id, "", "ok")
  /\ UNCHANGED <<pending, racers, codec, upgrade, config, today, numbersLog, appendLog>>

Archive(id) ==
  LET t == archive_parse_doc_id(id)
      fail(kind) == /\ files' = files
                    /\ last' = Outcome("archive", id, "", kind)
  IN
  /\ IF t = "" THEN fail("InvalidId")
     ELSE IF find_document_active(files, t, id.n) = {} THEN fail("NotFound")
     ELSE \E f \in find_document_active(files, t, id.n) :
            IF PathStrHasArchive(f) THEN fail("AlreadyArchived")
            ELSE IF f.body.status = "" THEN fail("MalformedDocument")
            ELSE LET g == archive_update_status(f, "Archived")
                 IN  /\ g.body.archived <= MaxMarkers
                     /\ IF \E d \in files : SamePath(d, [f EXCEPT !.loc = "archive"])
                        THEN /\ files' = WriteFile(files, g)
                             /\ last' = Outcome("archive", id, "", "AlreadyExists")
                        ELSE /\ files' = (files \ {f}) \cup {[g EXCEPT !.loc = "archive"]}
                             /\ last' = Outcome("archive", id, "", "ok")
  /\ UNCHANGED <<pending, racers, codec, upgrade, config, today, numbersLog, appendLog>>

----------------------------------------------------------------------------
(* edit.py *)

(* a gate that looks at the status only *)
check_editable_status_only(t, status, is_in_archive) ==
  is_status_editable(t, status)

check_editable(t, status, is_in_archive) ==
  IF is_in_archive THEN FALSE
  ELSE is_status_editable(t, status)

(* a gate that does not look at force *)
gate_answer_ignoring_force(is_editable, force) ==
  IF ~is_editable THEN [editable |-> FALSE, message |-> "locked"]
  ELSE [editable |-> TRUE, message |-> ""]

(* what check_document_editable returns next to the path *)
gate_answer(is_editable, force) ==
  IF ~is_editable /\ force THEN [editable |-> TRUE, message |-> "warning"]
  ELSE IF ~is_editable THEN [editable |-> FALSE, message |-> "locked"]
  ELSE [editable |-> TRUE, message |-> ""]

(* check_document_editable: reads, never writes *)
EditGate(id, force) ==
  LET t == parse_doc_id(id)
      answer(kind, editable, msg) ==
        last' = [Outcome("edit_gate", id, "", kind)
                   EXCEPT !.opt = force, !.flag = editable, !.status = msg]
  IN
  /\ IF t = "" THEN answer("InvalidId", FALSE, "")
     ELSE IF find_document(files, t, id.n, TRUE) = {} THEN answer("NotFound", FALSE, "")
     ELSE \E f \in find_document(files, t, id.n, TRUE) :
            LET r == gate_answer(check_editable(t, extract_status(f), is_archived(f)),
                                 force)
            IN  answer("ok", r.editable, r.message)
  /\ UNCHANGED <<pending, racers, codec, upgrade, config, files, today, numbersLog, appendLog>>

----------------------------------------------------------------------------
(* append.py *)

has_addenda_section(f) == f.body.addenda > 0

(* an append that drops an entry equal to one already there *)
add_entry_dedup(f, title, text, day) ==
  LET entry == [date |-> day, title |-> title, text |-> text]
  IN  [f EXCEPT !.body.addenda = IF @ > 0 THEN @ ELSE 1,
                !.body.entries =
                   IF \E i \in 1..Len(@) : @[i] = entry THEN @ ELSE Append(@, entry)]

(* content.rstrip() + [ADDENDA_SEPARATOR] + the dated subsection *)
add_entry(f, title, text, day) ==
  LET entry == [date |-> day, title |-> title, text |-> text]
  IN  [f EXCEPT !.body.addenda = IF has_addenda_section(f) THEN @ ELSE @ + 1,
                !.body.entries = Append(@, entry)]

(* an append that also rewrites the frontmatter status *)
append_addendum_touching_status(f, title, text, day) ==
  add_entry([f EXCEPT !.fm.modified = day, !.fm.status = "amended"], title, text, day)

append_addendum(f, title, text, day) ==
  add_entry(IF f.fm.present THEN [f EXCEPT !.fm.modified = day] ELSE f,
            title, text, day)

AppendAddendum(id, title, text) ==
  LET t == parse_doc_id(id)
      fail(kind) == /\ files' = files
                    /\ last' = Outcome("append", id, title, kind)
                    /\ appendLog' = appendLog
  IN
  /\ IF t = "" THEN fail("InvalidId")
     ELSE IF append_find_document(files, t, id.n) = {} THEN fail("NotFound")
     ELSE \E f \in append_find_document(files, t, id.n) :
            /\ Appends < MaxEntries
            /\ files' = WriteFile(files, append_addendum(f, title, text, today))
            /\ last' = Outcome("append", id, title, "ok")
            /\ appendLog' = [appendLog EXCEPT ![f.type] =
                  Append(@, [num |-> f.num,
                             entry |-> [date |-> today, title |-> title, text |-> text]])]
  /\ UNCHANGED <<pending, racers, codec, upgrade, config, today, numbersLog>>

----------------------------------------------------------------------------
(* supersede.py *)

update_new_document(f, old_doc_id, day) ==
  IF f.fm.present
  THEN [f EXCEPT !.fm.supersedes = old_doc_id, !.fm.modified = day]
  ELSE f

update_old_document(f, new_doc_id, day) ==
  LET f1 == IF f.fm.present
            THEN [f EXCEPT !.fm.superseded_by = new_doc_id,
                           !.fm.status = "superseded", !.fm.modified = day]
            ELSE f
      f2 == IF f1.body.status # "" THEN [f1 EXCEPT !.body.status = "Superseded"]
            ELSE f1
  IN  add_entry(f2, "Superseded", "superseded by", day)

Supersede(old_id, title, cap) ==
  LET t == parse_doc_id(old_id)
      fail(kind) == /\ files' = files
                    /\ last' = Outcome("supersede", old_id, title, kind)
                    /\ numbersLog' = numbersLog
  IN
  /\ Cardinality(files) < cap
  /\ IF t = "" THEN fail("InvalidId")
     ELSE IF find_document(files, t, old_id.n, TRUE) = {} THEN fail("NotFound")
     ELSE \E old \in find_document(files, t, old_id.n, TRUE) :
            IF old.fm.present /\ old.fm.superseded_by # NullId
            THEN fail("AlreadyConflicted")
            ELSE LET r == create_document(files, t, title, today)
                 IN  IF r.result # "ok" THEN fail(r.result)
                     ELSE
                     LET new == CHOOSE f \in r.files :
                                  /\ f.type = t /\ f.loc = "active"
                                  /\ f.num = r.num /\ f.slug = r.slug
                                  /\ f.width = format_width(r.num)
                         new_doc_id == IF new.fm.present THEN new.fm.id
                                       ELSE format_doc_id(t, r.num)
                         fs1 == WriteFile(r.files, update_new_document(new, old_id, today))
                     IN  /\ Len(old.body.entries) < MaxEntries
                         /\ Creates < MaxCreates
                         /\ files' = WriteFile(fs1, update_old_document(old, new_doc_id, today))
                         /\ last' = [Outcome("supersede", old_id, title, "ok")
                                       EXCEPT !.num = r.num]
                         /\ numbersLog' = [numbersLog EXCEPT ![t] = Append(@, r.num)]
  /\ UNCHANGED <<pending, racers, codec, upgrade, config, today, appendLog>>

(* supersede_document one write at a time: the new document is created,
   then written with its supersedes, then the old document is written; the
   process can end between two writes. *)

NoPath == [type |-> "", loc |-> "", num |-> 0, width |-> 0, slug |-> ""]

PathOf(f) ==
  [type |-> f.type, loc |-> f.loc, num |-> f.num, width |-> f.width, slug |-> f.slug]

(* left, left_old, left_at: the new document, the old document and the
   position of the last run that was interrupted *)
NoPending ==
  [pc |-> "idle", old_id |-> NullId, title |-> "", old |-> NoPath, new |-> NoPath,
   left |-> NoPath, left_old |-> NoPath, left_at |-> ""]

(* the file at a path *)
FileAt(fs, path) == CHOOSE g \in fs : SamePath(g, path)

(* writes in the other order: the old document first *)
supersede_write_old_first(fs, p, day) ==
  LET old == FileAt(fs, p.old)
      new == FileAt(fs, p.new)
      new_doc_id == IF new.fm.present THEN new.fm.id
                    ELSE format_doc_id(new.type, new.num)
  IN  IF p.pc = "created"
      THEN WriteFile(fs, update_old_document(old, new_doc_id, day))
      ELSE WriteFile(fs, update_new_document(new, p.old_id, day))

(* the write that follows position p.pc: update_new_document after the
   create, update_old_document after that *)
supersede_write(fs, p, day) ==
  LET old == FileAt(fs, p.old)
      new == FileAt(fs, p.new)
      new_doc_id == IF new.fm.present THEN new.fm.id
                    ELSE format_doc_id(new.type, new.num)
  IN  IF p.pc = "created"
      THEN WriteFile(fs, update_new_document(new, p.old_id, day))
      ELSE WriteFile(fs, update_old_document(old, new_doc_id, day))

(* a supersede that takes up the document an interrupted run on the same
   old document created, and creates none *)
SupersedeBeginResuming(old_id, title, cap) ==
  LET t == parse_doc_id(old_id)
      fail(kind) == /\ files' = files
                    /\ last' = Outcome("supersede", old_id, title, kind)
                    /\ numbersLog' = numbersLog
                    /\ pending' = pending
  IN
  /\ pending.pc = "idle"
  /\ Cardinality(files) < cap
  /\ IF t = "" THEN fail("InvalidId")
     ELSE IF find_document(files, t, old_id.n, TRUE) = {} THEN fail("NotFound")
     ELSE \E old \in find_document(files, t, old_id.n, TRUE) :
            IF old.fm.present /\ old.fm.superseded_by # NullId
            THEN fail("AlreadyConflicted")
            ELSE IF pending.left # NoPath /\ pending.left_old = PathOf(old)
            THEN /\ files' = files
                 /\ last' = [Outcome("supersede_create", old_id, title, "ok")
                               EXCEPT !.num = pending.left.num]
                 /\ numbersLog' = numbersLog
                 /\ pending' = [pending EXCEPT
                                  !.pc = "created", !.old_id = old_id,
                                  !.title = title, !.old = PathOf(old),
                                  !.new = pending.left]
            ELSE LET r == create_document(files, t, title, today)
                 IN  IF r.result # "ok" THEN fail(r.result)
                     ELSE /\ Len(old.body.entries) < MaxEntries
                          /\ Creates < MaxCreates
                          /\ files' = r.files
                          /\ last' = [Outcome("supersede_create", old_id, title, "ok")
                                        EXCEPT !.num = r.num]
                          /\ numbersLog' = [numbersLog EXCEPT ![t] = Append(@, r.num)]
                          /\ pending' = [pending EXCEPT
                                           !.pc = "created", !.old_id = old_id,
                                           !.title = title, !.old = PathOf(old),
                                           !.new = [type |-> t, loc |-> "active",
                                                    num |-> r.num,
                                                    width |-> format_width(r.num),
                                                    slug |-> r.slug]]
  /\ UNCHANGED <<racers, codec, upgrade, config, today, appendLog>>

(* parse, locate, the already-superseded check, and create_document *)
SupersedeBegin(old_id, title, cap) ==
  LET t == parse_doc_id(old_id)
      fail(kind) == /\ files' = files
                    /\ last' = Outcome("supersede", old_id, title, kind)
                    /\ numbersLog' = numbersLog
                    /\ pending' = pending
  IN
  /\ pending.pc = "idle"
  /\ Cardinality(files) < cap
  /\ IF t = "" THEN fail("InvalidId")
     ELSE IF find_document(files, t, old_id.n, TRUE) = {} THEN fail("NotFound")
     ELSE \E old \in find_document(files, t, old_id.n, TRUE) :
            IF old.fm.present /\ old.fm.superseded_by # NullId
            THEN fail("AlreadyConflicted")
            ELSE LET r == create_document(files, t, title, today)
                 IN  IF r.result # "ok" THEN fail(r.result)
                     ELSE /\ Len(old.body.entries) < MaxEntries
                          /\ Creates < MaxCreates
                          /\ files' = r.files
                          /\ last' = [Outcome("supersede_create", old_id, title, "ok")
                                        EXCEPT !.num = r.num]
                          /\ numbersLog' = [numbersLog EXCEPT ![t] = Append(@, r.num)]
                          /\ pending' = [pending EXCEPT
                                           !.pc = "created", !.old_id = old_id,
                                           !.title = title, !.old = PathOf(old),
                                           !.new = [type |-> t, loc |-> "active",
                                                    num |-> r.num,
                                                    width |-> format_width(r.num),
                                                    slug |-> r.slug]]
  /\ UNCHANGED <<racers, codec, upgrade, config, today, appendLog>>

(* update_new_document, then update_old_document and the return *)
SupersedeWrite ==
  /\ pending.pc \in {"created", "linked"}
  /\ files' = supersede_write(files, pending, today)
  /\ IF pending.pc = "created"
     THEN /\ pending' = [pending EXCEPT !.pc = "linked"]
          /\ last' = [Outcome("supersede_link", pending.old_id, pending.title, "ok")
                        EXCEPT !.num = pending.new.num]
     ELSE /\ pending' = [NoPending EXCEPT !.left = pending.left,
                                           !.left_old = pending.left_old,
                                           !.left_at = pending.left_at]
          /\ last' = [Outcome("supersede", pending.old_id, pending.title, "ok")
                        EXCEPT !.num = pending.new.num]
  /\ UNCHANGED <<racers, codec, upgrade, config, today, numbersLog, appendLog>>

(* the process ends between two writes *)
SupersedeInterrupt ==
  /\ pending.pc \in {"created", "linked"}
  /\ pending' = [NoPending EXCEPT !.left = pending.new, !.left_old = pending.old,
                                  !.left_at = pending.pc]
  /\ last' = [Outcome("interrupt", pending.old_id, pending.title, pending.pc)
                EXCEPT !.num = pending.new.num]
  /\ UNCHANGED <<racers, codec, upgrade, config, files, today, numbersLog, appendLog>>

----------------------------------------------------------------------------
(* relate.py *)

Pick(S) == CHOOSE x \in S : TRUE

InSeq(x, seq) == \E i \in 1..Len(seq) : seq[i] = x

(* an add_related that rewrites the file also when the id is already listed *)
add_related_always_writing(f, related_id, day) ==
  IF ~f.fm.present THEN [written |-> FALSE, file |-> f]
  ELSE IF InSeq(Upper(related_id), [i \in 1..Len(f.fm.related) |-> Upper(f.fm.related[i])])
       THEN [written |-> TRUE, file |-> [f EXCEPT !.fm.modified = day]]
  ELSE [written |-> TRUE,
        file |-> [f EXCEPT !.fm.related = Append(@, Upper(related_id)),
                           !.fm.modified = day]]

(* an add_related that compares and stores the id as typed *)
add_related_as_typed(f, related_id, day) ==
  IF ~f.fm.present THEN [written |-> FALSE, file |-> f]
  ELSE IF InSeq(related_id, f.fm.related)
       THEN [written |-> FALSE, file |-> f]
  ELSE [written |-> TRUE,
        file |-> [f EXCEPT !.fm.related = Append(@, related_id),
                           !.fm.modified = day]]

(* add_related: [written, file]; nothing is written when the file has no
   frontmatter or already lists the id *)
add_related(f, related_id, day) ==
  IF ~f.fm.present THEN [written |-> FALSE, file |-> f]
  ELSE IF InSeq(Upper(related_id), [i \in 1..Len(f.fm.related) |-> Upper(f.fm.related[i])])
       THEN [written |-> FALSE, file |-> f]
  ELSE [written |-> TRUE,
        file |-> [f EXCEPT !.fm.related = Append(@, Upper(related_id)),
                           !.fm.modified = day]]

(* find_document_by_id *)
Resolve(fs, id) ==
  IF parse_doc_id(id) = "" THEN {}
  ELSE find_document(fs, parse_doc_id(id), id.n, TRUE)

(* the file now at the path of f *)
AtPath(fs, f) == Pick({g \in fs : SamePath(g, f)})

(* one turn of the loop of relate_documents: the target's id goes onto the
   main document, and the main document's id onto the target when
   bidirectional; the sets bind each intermediate result once *)
relate_step(acc, main, doc_id, related_id, bidirectional, day) ==
  Pick({Pick({Pick({
      [files   |-> IF bidirectional /\ r2.written THEN WriteFile(fs1, r2.file) ELSE fs1,
       result  |-> "ok",
       added   |-> IF r1.written THEN Append(acc.added, related_id) ELSE acc.added,
       present |-> IF r1.written THEN acc.present ELSE Append(acc.present, related_id)]
      : r2 \in {add_related(Pick(Resolve(fs1, related_id)), doc_id, day)}})
    : fs1 \in {IF r1.written THEN WriteFile(acc.files, r1.file) ELSE acc.files}})
  : r1 \in {add_related(AtPath(acc.files, main), related_id, day)}})

(* a loop that verifies every target before it writes any *)
RECURSIVE relate_all(_, _, _, _, _, _, _)
relate_all(acc, main, doc_id, related_ids, i, bidirectional, day) ==
  IF i > Len(related_ids) THEN acc
  ELSE Pick({relate_all(a, main, doc_id, related_ids, i + 1, bidirectional, day)
             : a \in {relate_step(acc, main, doc_id, related_ids[i], bidirectional, day)}})

relate_loop_verifying_first(acc, main, doc_id, related_ids, i, bidirectional, day) ==
  IF \E j \in i..Len(related_ids) : Resolve(acc.files, related_ids[j]) = {}
  THEN [acc EXCEPT !.result = "NotFound"]
  ELSE relate_all(acc, main, doc_id, related_ids, i, bidirectional, day)

(* the loop of relate_documents over related_ids[i..], from the state acc *)
RECURSIVE relate_loop(_, _, _, _, _, _, _)
relate_loop(acc, main, doc_id, related_ids, i, bidirectional, day) ==
  IF i > Len(related_ids) THEN acc
  ELSE IF Resolve(acc.files, related_ids[i]) = {}
  THEN [acc EXCEPT !.result = "NotFound"]
  ELSE Pick({relate_loop(a, main, doc_id, related_ids, i + 1, bidirectional, day)
             : a \in {relate_step(acc, main, doc_id, related_ids[i], bidirectional, day)}})

Relate(id, related_ids, bidirectional) ==
  /\ IF Resolve(files, id) = {}
     THEN /\ files' = files
          /\ last' = [Outcome("relate", id, "", "NotFound")
                        EXCEPT !.targets = related_ids, !.opt = bidirectional]
     ELSE \E main \in Resolve(files, id) :
          \E r \in {relate_loop([files |-> files, result |-> "ok",
                                  added |-> <<>>, present |-> <<>>],
                                 main, id, related_ids, 1, bidirectional, today)} :
                /\ files' = r.files
                /\ last' = [Outcome("relate", id, "", r.result)
                              EXCEPT !.targets = related_ids, !.opt = bidirectional,
                                     !.added = r.added, !.present = r.present]
  /\ UNCHANGED <<pending, racers, codec, upgrade, config, today, numbersLog, appendLog>>

----------------------------------------------------------------------------
(* The clock, and what happens to the directory outside the operations *)

NextDay ==
  /\ today < MaxDay
  /\ today' = today + 1
  /\ last' = Outcome("next_day", NullId, "", "ok")
  /\ UNCHANGED <<pending, racers, codec, upgrade, config, files, numbersLog, appendLog>>

(* a file removed from disk *)
RemoveFile ==
  /\ \E f \in files :
       /\ files' = files \ {f}
       /\ last' = Outcome("remove", format_doc_id(f.type, f.num), "", "ok")
  /\ UNCHANGED <<pending, racers, codec, upgrade, config, today, numbersLog, appendLog>>

(* A document of the earlier schema: no frontmatter; its body may or may not
   hold a Status section. *)
LegacyStatuses == {"", "Accepted", "Proposed"}

PlaceLegacy(t, title, st, cap) ==
  /\ Cardinality(files) < cap
  /\ files' = WriteFile(files,
        [type |-> t, loc |-> "active", num |-> find_next_number(files, t),
         width |-> format_width(find_next_number(files, t)),
         slug |-> slugify(title), fm |-> NoFrontmatter,
         body |-> [status |-> st, sections |-> TRUE, archived |-> 0,
                   addenda |-> 0, entries |-> <<>>]])
  /\ last' = Outcome("legacy", format_doc_id(t, find_next_number(files, t)),
                     title, "ok")
  /\ UNCHANGED <<pending, racers, codec, upgrade, config, today, numbersLog, appendLog>>

----------------------------------------------------------------------------
(* Inputs: the ids of the documents on disk and one id that resolves to
   nothing; statuses in several spellings; one or two titles. *)

MissingId == [p |-> "ADR", n |-> 99]

IdInputs == {format_doc_id(f.type, f.num) : f \in files} \cup {MissingId}

StatusInputs ==
  {"proposed", "accepted", "superseded", "In Progress", "completed", "draft",
   "ACCEPTED", " proposed", "archived", "bogus"}

FewStatuses == {"accepted", "bogus"}

CreateOp == \E t \in Types, title \in Titles : Create(t, title, MaxFiles)

CreateUseX == \E t \in Types : Create(t, "Use X", MaxFiles)

CreateOne == \E t \in Types : Create(t, "Use X", MaxDocs)

PlaceLegacyOne ==
  \E t \in Types, st \in LegacyStatuses : PlaceLegacy(t, "Use X", st, MaxDocs)

UpdateStatusOp == \E id \in IdInputs, s \in StatusInputs : UpdateStatus(id, s)

UpdateStatusFew == \E id \in IdInputs, s \in FewStatuses : UpdateStatus(id, s)

ArchiveOp == \E id \in IdInputs : Archive(id)

EditGateOp == \E id \in IdInputs, force \in BOOLEAN : EditGate(id, force)

AppendOp == \E id \in IdInputs : AppendAddendum(id, "Note", "details")

SupersedeOp == \E id \in IdInputs : Supersede(id, "New X!", MaxFiles)

SupersedeMore == \E id \in IdInputs : Supersede(id, "New X!", MaxFiles + 1)

RelateOp ==
  \E id \in IdInputs, target \in IdInputs, bidirectional \in BOOLEAN :
     Relate(id, <<target>>, bidirectional)

----------------------------------------------------------------------------
(* vibe-doc.py and migrations/v0.2.1/migrate.py *)

(* the characters of the version strings, the dot below the digits as in the
   character codes *)
Dot == 0 - 1

VersionChars ==
  [v \in {"0.1.0", "0.2.0", "0.2.1", "0.9.0", "0.10.0"} |->
     CASE v = "0.1.0" -> <<0, Dot, 1, Dot, 0>>
       [] v = "0.2.0" -> <<0, Dot, 2, Dot, 0>>
       [] v = "0.2.1" -> <<0, Dot, 2, Dot, 1>>
       [] v = "0.9.0" -> <<0, Dot, 9, Dot, 0>>
       [] v = "0.10.0" -> <<0, Dot, 1, 0, Dot, 0>>]

(* a < b on Python strings: the first differing character decides, a proper
   prefix is the smaller *)
RECURSIVE str_lt(_, _)
str_lt(a, b) ==
  IF b = <<>> THEN FALSE
  ELSE IF a = <<>> THEN TRUE
  ELSE IF Head(a) # Head(b) THEN Head(a) < Head(b)
  ELSE str_lt(Tail(a), Tail(b))

(* a comparison of versions by their numbers *)
version_lt_numeric(a, b) ==
  LET Parts == [v \in DOMAIN VersionChars |->
                  CASE v = "0.1.0" -> <<0, 1, 0>> [] v = "0.2.0" -> <<0, 2, 0>>
                    [] v = "0.2.1" -> <<0, 2, 1>> [] v = "0.9.0" -> <<0, 9, 0>>
                    [] v = "0.10.0" -> <<0, 10, 0>>]
  IN \E i \in 1..3 : Parts[a][i] < Parts[b][i] /\ \A j \in 1..(i - 1) : Parts[a][j] = Parts[b][j]

(* v['version'] > current, current >= target: str against str *)
version_lt(a, b) == str_lt(VersionChars[a], VersionChars[b])

version_le(a, b) == a = b \/ version_lt(a, b)

(* get_project_version: planning.version of the configuration, 0.1.0 when
   there is none *)
get_project_version(cfg) == cfg.version

(* infer_doc_type: the directory of a type names it, and elsewhere a file
   name that starts with a number is a decision record's; "" when neither
   the directory nor the file name tells *)
infer_doc_type(f) ==
  IF f.type \in Types THEN f.type ELSE IF f.num > 0 THEN "adr" ELSE ""

(* extract_doc_id: None (NullId) when the file name carries no number *)
extract_doc_id(f) ==
  IF f.num = 0 THEN NullId ELSE format_doc_id(infer_doc_type(f), f.num)

(* extract_status_from_content: the Status section's value stripped and
   lower-cased, proposed when there is no such section *)
extract_status_from_content(f) ==
  IF f.body.status # "" THEN Lower(Strip(f.body.status)) ELSE "proposed"

(* has_frontmatter: the content starts with the delimiter line *)
has_frontmatter(f) == f.fm.present

(* the documents that migrate_document rewrites *)
migratable(f) ==
  ~has_frontmatter(f) /\ infer_doc_type(f) # "" /\ extract_doc_id(f) # NullId

(* a migrate_document that does not look for frontmatter *)
migrate_document_unguarded(f, day) ==
  IF infer_doc_type(f) = "" \/ extract_doc_id(f) = NullId THEN f
  ELSE [f EXCEPT !.fm = [NoFrontmatter EXCEPT !.present = TRUE,
                                               !.id = extract_doc_id(f),
                                               !.status = extract_status_from_content(f),
                                               !.modified = day],
                 !.body.addenda = @ + 1]

(* migrate_document: the file as it is left *)
migrate_document(f, day) ==
  IF ~migratable(f) THEN f
  ELSE [f EXCEPT !.fm = [NoFrontmatter EXCEPT !.present = TRUE,
                                               !.id = extract_doc_id(f),
                                               !.status = extract_status_from_content(f),
                                               !.modified = day],
                 !.body.addenda = IF @ > 0 THEN @ ELSE 1]

(* the files at the paths of broken: reading them raises *)
Unreadable(fs, broken) == {f \in fs : \E b \in broken : SamePath(f, b)}

(* migrate of the script of version v: every document it can read is
   migrated, the version is written, and it succeeds when no document
   raised *)
migrate(fs, cfg, v, broken, day) ==
  [files   |-> {IF f \in Unreadable(fs, broken) THEN f ELSE migrate_document(f, day)
                : f \in fs},
   config  |-> [exists |-> TRUE, version |-> v],
   success |-> Unreadable(fs, broken) = {}]

(* dry_run of the script of version v: the configuration change and the
   documents it lists; the script of 0.2.1 announces 0.2.0 *)
dry_run(fs, cfg, v) ==
  [version   |-> v,
   script    |-> "found",
   config_to |-> IF version_lt(get_project_version(cfg), v)
                 THEN (IF v = "0.2.1" THEN "0.2.0" ELSE v) ELSE "",
   add       |-> {f \in fs : migratable(f)},
   skip      |-> {f \in fs : ~has_frontmatter(f) /\ ~migratable(f)}]

NoChanges(v, why) ==
  [version |-> v, script |-> why, config_to |-> "", add |-> {}, skip |-> {}]

(* versions_to_apply: the entries in the order of the manifest *)
versions_to_apply(manifest, current, target) ==
  SelectSeq(manifest, LAMBDA e : version_lt(current, e.version) /\ version_le(e.version, target))

(* a loop that goes on after a migration that failed *)
RECURSIVE apply_versions_through(_, _, _, _, _)
apply_versions_through(vs, i, acc, broken, day) ==
  IF i > Len(vs) THEN acc
  ELSE IF vs[i].migration /\ vs[i].script
  THEN \* the script is loaded and its migrate invoked
       LET m == migrate(acc.files, acc.config, vs[i].version, broken, day)
       IN  apply_versions_through(vs, i + 1,
              [acc EXCEPT !.files = m.files, !.config = m.config,
                          !.applied = Append(@, vs[i].version),
                          !.invoked = Append(@, vs[i].version),
                          !.result = IF m.success THEN @ ELSE 1],
              broken, day)
  ELSE apply_versions_through(vs, i + 1, [acc EXCEPT !.applied = Append(@, vs[i].version)],
                              broken, day)

(* the loop of cmd_upgrade over vs[i..]: it returns 1 at the first migrate
   that reports failure *)
RECURSIVE apply_versions(_, _, _, _, _)
apply_versions(vs, i, acc, broken, day) ==
  IF i > Len(vs) THEN acc
  ELSE IF vs[i].migration /\ vs[i].script
  THEN LET m == migrate(acc.files, acc.config, vs[i].version, broken, day)
           acc1 == [acc EXCEPT !.files = m.files, !.config = m.config,
                               !.applied = Append(@, vs[i].version),
                               !.invoked = Append(@, vs[i].version)]
       IN  IF ~m.success THEN [acc1 EXCEPT !.result = 1]
           ELSE apply_versions(vs, i + 1, acc1, broken, day)
  ELSE apply_versions(vs, i + 1, [acc EXCEPT !.applied = Append(@, vs[i].version)],
                      broken, day)

(* cmd_upgrade: what it leaves and returns *)
cmd_upgrade(manifest, fs, cfg, target, dry, broken, day) ==
  LET current == get_project_version(cfg)
      vs == versions_to_apply(manifest, current, target)
      none == [files |-> fs, config |-> cfg, result |-> 0, selected |-> <<>>,
               applied |-> <<>>, invoked |-> <<>>, changes |-> <<>>]
  IN  IF ~version_lt(current, target) THEN none
      ELSE IF vs = <<>> THEN none
      ELSE IF dry
      THEN [none EXCEPT !.selected = [i \in 1..Len(vs) |-> vs[i].version],
                        !.changes = [i \in 1..Len(vs) |->
                           IF ~vs[i].migration THEN NoChanges(vs[i].version, "metadata")
                           ELSE IF ~vs[i].script THEN NoChanges(vs[i].version, "missing")
                           ELSE dry_run(fs, cfg, vs[i].version)]]
      ELSE apply_versions(vs, 1,
                          [none EXCEPT !.selected = [i \in 1..Len(vs) |-> vs[i].version]],
                          broken, day)

NoUpgrade ==
  [manifest |-> <<>>, op |-> "", to |-> "", before |-> "0.1.0", broken |-> {},
   result |-> 0, selected |-> <<>>, applied |-> <<>>, invoked |-> <<>>, changes |-> <<>>]

Upgrade(target, dry, broken) ==
  /\ \E r \in {cmd_upgrade(upgrade.manifest, files, config, target, dry, broken, today)} :
        /\ files' = r.files
        /\ config' = r.config
        /\ upgrade' = [upgrade EXCEPT !.op = IF dry THEN "dry_run" ELSE "upgrade",
                                      !.to = target, !.before = get_project_version(config),
                                      !.broken = broken,
                                      !.result = r.result, !.selected = r.selected,
                                      !.applied = r.applied, !.invoked = r.invoked,
                                      !.changes = r.changes]
        /\ last' = Outcome("upgrade", NullId, target, IF r.result = 0 THEN "ok" ELSE "failed")
  /\ UNCHANGED <<pending, racers, codec, today, numbersLog, appendLog>>

(* migrate of the script in the repository, applied to the project *)
RunMigrate(broken) ==
  /\ \E r \in {migrate(files, config, "0.2.1", broken, today)} :
        /\ files' = r.files
        /\ config' = r.config
        /\ upgrade' = [upgrade EXCEPT !.op = "migrate", !.to = "0.2.1",
                                      !.before = get_project_version(config),
                                      !.broken = broken,
                                      !.result = IF r.success THEN 0 ELSE 1,
                                      !.selected = <<"0.2.1">>, !.applied = <<"0.2.1">>,
                                      !.invoked = <<"0.2.1">>, !.changes = <<>>]
        /\ last' = Outcome("migrate", NullId, "0.2.1", IF r.success THEN "ok" ELSE "failed")
  /\ UNCHANGED <<pending, racers, codec, today, numbersLog, appendLog>>

(* dry_run of the script in the repository *)
RunDryRun ==
  /\ upgrade' = [upgrade EXCEPT !.op = "dry_run", !.to = "0.2.1",
                                !.before = get_project_version(config),
                                !.broken = {}, !.result = 0,
                                !.selected = <<"0.2.1">>, !.applied = <<>>,
                                !.invoked = <<>>,
                                !.changes = <<dry_run(files, config, "0.2.1")>>]
  /\ last' = Outcome("dry_run", NullId, "0.2.1", "ok")
  /\ UNCHANGED <<pending, racers, codec, files, config, today, numbersLog, appendLog>>

----------------------------------------------------------------------------
(* frontmatter.py: the codec over texts.  A text is a sequence of tokens: a
   word, one punctuation character, a line break, or the delimiter "---". *)

NL == "\n"
SP == " "
SQ == "'"
DQ == "\""

(* metadata values: None, a string, a list of values, and what a block that
   is no YAML leaves *)
NoneValue == [kind |-> "none", s |-> <<>>, items |-> <<>>]
StrValue(s) == [kind |-> "str", s |-> s, items |-> <<>>]
ListValue(items) == [kind |-> "list", s |-> <<>>, items |-> items]
EmptyDictValue == [kind |-> "dict", s |-> <<>>, items |-> <<>>]
YAMLError == [kind |-> "error", s |-> <<>>, items |-> <<>>]

(* what parse_frontmatter returns as metadata: a dict (its entries in
   insertion order), or the list or the scalar that yaml.safe_load gave *)
DictOf(entries) == [kind |-> "dict", entries |-> entries, value |-> NoneValue]
NotADict(value) == [kind |-> value.kind, entries |-> <<>>, value |-> value]

(* dict[key] = value: a key that is there keeps its place *)
SetItem(entries, key, value) ==
  IF \E i \in 1..Len(entries) : entries[i].key = key
  THEN [i \in 1..Len(entries) |->
          IF entries[i].key = key THEN [key |-> key, value |-> value] ELSE entries[i]]
  ELSE Append(entries, [key |-> key, value |-> value])

StartsAt(s, pat, i) ==
  /\ i >= 1
  /\ i + Len(pat) - 1 <= Len(s)
  /\ SubSeq(s, i, i + Len(pat) - 1) = pat

Contains(s, c) == \E i \in 1..Len(s) : s[i] = c

(* the index of the first c in s *)
Index(s, c) == CHOOSE i \in 1..Len(s) : s[i] = c /\ \A j \in 1..(i - 1) : s[j] # c

(* str.split(c) *)
RECURSIVE split(_, _)
split(s, c) ==
  IF ~Contains(s, c) THEN <<s>>
  ELSE <<SubSeq(s, 1, Index(s, c) - 1)>> \o split(SubSeq(s, Index(s, c) + 1, Len(s)), c)

(* sep.join(parts) *)
RECURSIVE join(_, _)
join(parts, sep) ==
  IF parts = <<>> THEN <<>>
  ELSE IF Len(parts) = 1 THEN parts[1]
  ELSE parts[1] \o sep \o join(Tail(parts), sep)

(* str.strip(chars) *)
strip_chars(s, chars) ==
  IF \A i \in 1..Len(s) : s[i] \in chars THEN <<>>
  ELSE SubSeq(s,
              CHOOSE i \in 1..Len(s) : s[i] \notin chars /\ \A j \in 1..(i - 1) : s[j] \in chars,
              CHOOSE i \in 1..Len(s) : s[i] \notin chars /\ \A j \in (i + 1)..Len(s) : s[j] \in chars)

(* str.strip(): the white space of a line is the blank *)
strip(s) == strip_chars(s, {SP, NL})

(* str.lower() on a text *)
lower(s) == [i \in 1..Len(s) |-> IF s[i] \in {"NULL", "Null"} THEN "null" ELSE s[i]]

(* FRONTMATTER_PATTERN = ^---\n(.*?)\n---\n with DOTALL: the places where
   the closing delimiter can start *)
Closings(content) ==
  {i \in 3..Len(content) : StartsAt(content, <<NL, "---", NL>>, i)}

frontmatter_match(content) ==
  StartsAt(content, <<"---", NL>>, 1) /\ Closings(content) # {}

Min(S) == CHOOSE m \in S : \A x \in S : m <= x

(* match.group(1) and content[match.end():] *)
frontmatter_text(content) == SubSeq(content, 3, Min(Closings(content)) - 1)

body_after(content) == SubSeq(content, Min(Closings(content)) + 3, Len(content))

(* the fallback parser's reading of one value *)
basic_value(value) ==
  IF lower(value) \in {<<"null">>, <<"~">>, <<>>} THEN NoneValue
  ELSE IF value[1] = "[" /\ value[Len(value)] = "]"
  THEN LET items == split(SubSeq(value, 2, Len(value) - 1), ",")
           kept == SelectSeq(items, LAMBDA item : strip(item) # <<>>)
       IN ListValue([i \in 1..Len(kept) |-> StrValue(strip_chars(strip(kept[i]), {DQ, SQ}))])
  ELSE IF value[1] = DQ /\ value[Len(value)] = DQ
  THEN StrValue(SubSeq(value, 2, Len(value) - 1))
  ELSE IF value[1] = SQ /\ value[Len(value)] = SQ
  THEN StrValue(SubSeq(value, 2, Len(value) - 1))
  ELSE StrValue(value)

(* the fallback parser over the lines from the i-th on *)
RECURSIVE basic_lines(_, _, _)
basic_lines(lines, i, entries) ==
  IF i > Len(lines) THEN entries
  ELSE IF ~Contains(lines[i], ":") THEN basic_lines(lines, i + 1, entries)
  ELSE basic_lines(lines, i + 1,
         SetItem(entries,
                 strip(SubSeq(lines[i], 1, Index(lines[i], ":") - 1)),
                 basic_value(strip(SubSeq(lines[i], Index(lines[i], ":") + 1, Len(lines[i]))))))

(* the fallback rendering of one entry *)
basic_line(entry) ==
  entry.key \o <<":", SP>> \o
    (CASE entry.value.kind = "none" -> <<"null">>
       [] entry.value.kind = "list" ->
            IF entry.value.items = <<>> THEN <<"[", "]">>
            ELSE <<"[">> \o join([i \in 1..Len(entry.value.items) |-> entry.value.items[i].s],
                                 <<",", SP>>) \o <<"]">>
       [] OTHER -> entry.value.s)

basic_render(entries) ==
  join(<<<<"---">>>> \o [i \in 1..Len(entries) |-> basic_line(entries[i])] \o <<<<"---">>>>,
       <<NL>>) \o <<NL>>

(* PyYAML, on the texts of one-line scalars, block mappings and sequences
   at column 0, and flow sequences *)

(* the plain scalars that the resolver reads as null *)
resolves_null(s) == s \in {<<>>, <<"~">>, <<"null">>, <<"Null">>, <<"NULL">>}

(* a ":" that ends a key: followed by a blank or by the end of the line *)
KeyColons(s) == {i \in 1..Len(s) : s[i] = ":" /\ (i = Len(s) \/ s[i + 1] = SP)}

(* a "-" that opens a sequence entry *)
is_entry(line) == line # <<>> /\ line[1] = "-" /\ (Len(line) = 1 \/ line[2] = SP)

(* the emitter writes a string plain when it reads back as that string *)
plain_ok(s) ==
  /\ ~resolves_null(s)
  /\ s[1] \notin {"[", "]", "{", "}", ",", SQ, DQ, SP, "---"}
  /\ s[Len(s)] # SP
  /\ ~is_entry(s)
  /\ KeyColons(s) = {}

(* the single-quoted style: a quote inside is doubled *)
RECURSIVE double_quotes(_)
double_quotes(s) ==
  IF s = <<>> THEN <<>>
  ELSE (IF Head(s) = SQ THEN <<SQ, SQ>> ELSE <<Head(s)>>) \o double_quotes(Tail(s))

dump_scalar(s) == IF plain_ok(s) THEN s ELSE <<SQ>> \o double_quotes(s) \o <<SQ>>

RECURSIVE dump_items(_)
dump_items(items) ==
  IF items = <<>> THEN <<>>
  ELSE <<"-", SP>> \o dump_scalar(Head(items).s) \o <<NL>> \o dump_items(Tail(items))

dump_entry(entry) ==
  dump_scalar(entry.key) \o <<":">> \o
    (CASE entry.value.kind = "none" -> <<SP, "null", NL>>
       [] entry.value.kind = "list" ->
            IF entry.value.items = <<>> THEN <<SP, "[", "]", NL>>
            ELSE <<NL>> \o dump_items(entry.value.items)
       [] OTHER -> <<SP>> \o dump_scalar(entry.value.s) \o <<NL>>)

(* yaml.dump(data, default_flow_style=False, sort_keys=False) with None
   represented as null *)
RECURSIVE dump_entries(_)
dump_entries(entries) ==
  IF entries = <<>> THEN <<>>
  ELSE dump_entry(Head(entries)) \o dump_entries(Tail(entries))

yaml_dump(entries) ==
  IF entries = <<>> THEN <<"{", "}", NL>> ELSE dump_entries(entries)

(* the text between single quotes, its doubled quotes read as one; an error
   when a quote stands alone *)
RECURSIVE single_quoted(_)
single_quoted(s) ==
  IF s = <<>> THEN StrValue(<<>>)
  ELSE IF Head(s) # SQ
  THEN Pick({IF r.kind = "error" THEN r ELSE StrValue(<<Head(s)>> \o r.s)
             : r \in {single_quoted(Tail(s))}})
  ELSE IF Len(s) >= 2 /\ s[2] = SQ
  THEN Pick({IF r.kind = "error" THEN r ELSE StrValue(<<SQ>> \o r.s)
             : r \in {single_quoted(SubSeq(s, 3, Len(s)))}})
  ELSE YAMLError

(* a scalar on one line, stripped *)
load_scalar(v) ==
  IF v = <<>> THEN NoneValue
  ELSE IF v[1] = SQ
  THEN IF Len(v) >= 2 /\ v[Len(v)] = SQ
       THEN single_quoted(SubSeq(v, 2, Len(v) - 1)) ELSE YAMLError
  ELSE IF v[1] = DQ
  THEN IF Len(v) >= 2 /\ v[Len(v)] = DQ /\ ~Contains(SubSeq(v, 2, Len(v) - 1), DQ)
       THEN StrValue(SubSeq(v, 2, Len(v) - 1)) ELSE YAMLError
  ELSE IF v[1] \in {"[", "]", "{", "}", ","} \/ KeyColons(v) # {} THEN YAMLError
  ELSE IF resolves_null(v) THEN NoneValue
  ELSE StrValue(v)

(* a node on one line: a flow sequence of scalars, the empty flow mapping,
   or a scalar *)
load_node(v) ==
  IF v = <<"{", "}">> THEN EmptyDictValue
  ELSE IF v # <<>> /\ v[1] = "["
  THEN IF v[Len(v)] # "]" \/ Contains(SubSeq(v, 2, Len(v) - 1), "[")
          \/ Contains(SubSeq(v, 2, Len(v) - 1), "]")
       THEN YAMLError
       ELSE IF strip(SubSeq(v, 2, Len(v) - 1)) = <<>> THEN ListValue(<<>>)
       ELSE LET items == split(SubSeq(v, 2, Len(v) - 1), ",")
                read == [i \in 1..Len(items) |-> load_scalar(strip(items[i]))]
            IN IF \E i \in 1..Len(items) :
                     strip(items[i]) = <<>> \/ read[i].kind = "error"
               THEN YAMLError ELSE ListValue(read)
  ELSE load_scalar(v)

(* the sequence entries from line i on, as far as they go: [items, next] *)
RECURSIVE load_entries(_, _, _)
load_entries(lines, i, items) ==
  IF i > Len(lines) \/ ~is_entry(lines[i]) THEN [items |-> items, next |-> i]
  ELSE load_entries(lines, i + 1,
                    Append(items, load_node(strip(SubSeq(lines[i], 2, Len(lines[i]))))))

(* the block mapping from line i on *)
RECURSIVE load_mapping(_, _, _)
load_mapping(lines, i, entries) ==
  IF i > Len(lines) THEN [kind |-> "dict", entries |-> entries, value |-> NoneValue]
  ELSE IF KeyColons(lines[i]) = {} \/ is_entry(lines[i])
  THEN [kind |-> "error", entries |-> <<>>, value |-> YAMLError]
  ELSE LET c == Min(KeyColons(lines[i]))
           key == load_scalar(strip(SubSeq(lines[i], 1, c - 1)))
           rest == strip(SubSeq(lines[i], c + 1, Len(lines[i])))
           below == load_entries(lines, i + 1, <<>>)
           value == IF rest # <<>> THEN load_node(rest)
                    ELSE IF below.next > i + 1 THEN ListValue(below.items)
                    ELSE NoneValue
           next == IF rest = <<>> THEN below.next ELSE i + 1
       IN IF key.kind # "str" \/ value.kind = "error"
             \/ \E j \in 1..Len(value.items) : value.items[j].kind = "error"
          THEN [kind |-> "error", entries |-> <<>>, value |-> YAMLError]
          ELSE load_mapping(lines, next, SetItem(entries, key.s, value))

(* yaml.safe_load(text): a dict, or the value the document is, or an error *)
yaml_safe_load(text) ==
  LET lines == SelectSeq(split(text, NL), LAMBDA line : strip(line) # <<>>)
  IN IF lines = <<>> THEN NotADict(NoneValue)
     ELSE IF is_entry(lines[1])
     THEN LET all == load_entries(lines, 1, <<>>)
          IN IF all.next <= Len(lines)
                \/ \E j \in 1..Len(all.items) : all.items[j].kind = "error"
             THEN NotADict(YAMLError) ELSE NotADict(ListValue(all.items))
     ELSE IF KeyColons(lines[1]) # {} /\ lines[1][1] \notin {SQ, DQ, "[", "{"}
     THEN load_mapping(lines, 1, <<>>)
     ELSE IF Len(lines) = 1
     THEN IF load_node(strip(lines[1])).kind = "dict" THEN DictOf(<<>>)
          ELSE NotADict(load_node(strip(lines[1])))
     ELSE IF \A i \in 1..Len(lines) : load_scalar(strip(lines[i])).kind = "str"
                                        /\ strip(lines[i])[1] \notin {SQ, DQ}
     THEN NotADict(StrValue(join([i \in 1..Len(lines) |-> strip(lines[i])], <<SP>>)))
     ELSE NotADict(YAMLError)

(* bool(x) of what safe_load returned *)
truthy(doc) ==
  CASE doc.kind = "dict" -> doc.entries # <<>>
    [] doc.kind = "none" -> FALSE
    [] doc.kind = "str" -> doc.value.s # <<>>
    [] doc.kind = "list" -> doc.value.items # <<>>
    [] OTHER -> TRUE

(* parse_frontmatter: (metadata, body) *)
parse_frontmatter(HAS_YAML, content) ==
  IF ~frontmatter_match(content)
  THEN [metadata |-> DictOf(<<>>), body |-> content]
  ELSE IF HAS_YAML
  THEN LET doc == yaml_safe_load(frontmatter_text(content))
       IN IF doc.kind = "error"
          THEN [metadata |-> DictOf(<<>>), body |-> content]
          ELSE [metadata |-> IF truthy(doc) THEN doc ELSE DictOf(<<>>),
                body |-> body_after(content)]
  ELSE [metadata |-> DictOf(basic_lines(split(frontmatter_text(content), NL), 1, <<>>)),
        body |-> body_after(content)]

(* render_frontmatter *)
render_frontmatter(HAS_YAML, entries) ==
  IF HAS_YAML THEN <<"---", NL>> \o yaml_dump(entries) \o <<"---", NL>>
  ELSE basic_render(entries)

(* the codec at work: a mapping is rendered and the text parsed, or a given
   content is parsed *)
NoCodec ==
  [HAS_YAML |-> TRUE, source |-> "", block |-> "", step |-> "", data |-> <<>>,
   content |-> <<>>, metadata |-> DictOf(<<>>), body |-> <<>>]

----------------------------------------------------------------------------

Init ==
  /\ files = {}
  /\ config = NoConfig
  /\ today = 0
  /\ last = NoOp
  /\ numbersLog = [t \in Types |-> <<>>]
  /\ appendLog = [t \in Types |-> <<>>]
  /\ codec = NoCodec
  /\ upgrade = NoUpgrade
  /\ racers = NoRacers
  /\ pending = NoPending

(* the operations that write a document's status, links or location *)
Next ==
  \/ CreateUseX
  \/ UpdateStatusFew
  \/ ArchiveOp
  \/ SupersedeOp
  \/ RelateOp

Spec == Init /\ [][Next]_vars

(* create and archive alone, from the empty project *)
NextNumbering == CreateOp \/ ArchiveOp

SpecNumbering == Init /\ [][NextNumbering]_vars

(* create and archive, and files removed from disk *)
NextRemoval == CreateOp \/ ArchiveOp \/ RemoveFile

SpecRemoval == Init /\ [][NextRemoval]_vars

(* one document, created or of the earlier schema: its status and the gate *)
NextStatus ==
  \/ CreateOne
  \/ PlaceLegacyOne
  \/ UpdateStatusOp
  \/ ArchiveOp
  \/ EditGateOp

SpecStatus == Init /\ [][NextStatus]_vars

(* one document: addenda on it, whatever its status, location and day *)
NextAppend ==
  \/ CreateOne
  \/ PlaceLegacyOne
  \/ ArchiveOp
  \/ AppendOp
  \/ NextDay

SpecAppend == Init /\ [][NextAppend]_vars

(* the related entries on disk *)
Links == SumLen([f \in files |-> f.fm.related], files)

RelateTypes == {"adr", "fdp"}

CreateRelated == \E t \in RelateTypes : Create(t, "Use X", MaxFiles)

PlaceLegacyAdr == PlaceLegacy("adr", "Use X", "Accepted", MaxFiles)

(* the ids of the documents on disk, and one of them typed in lower case *)
DiskIds == {format_doc_id(f.type, f.num) : f \in files}

RelateIds == DiskIds \cup {[p |-> "adr", n |-> 1]}

TargetLists ==
  {<<a>> : a \in RelateIds}
    \cup {<<p[1], p[2]>> : p \in {q \in DiskIds \X DiskIds : q[1] # q[2]}}

RelateLists ==
  \E id \in DiskIds, related_ids \in TargetLists, bidirectional \in BOOLEAN :
     /\ Relate(id, related_ids, bidirectional)
     /\ SumLen([f \in files' |-> f.fm.related], files') <= MaxLinks

(* two documents and the relations between them *)
NextRelate ==
  \/ CreateRelated
  \/ RelateLists

SpecRelate == Init /\ [][NextRelate]_vars

(* the same, with a document of the earlier schema among them *)
NextRelateLegacy ==
  \/ CreateRelated
  \/ PlaceLegacyAdr
  \/ RelateLists

SpecRelateLegacy == Init /\ [][NextRelateLegacy]_vars

(* a document, created or of the earlier schema, and the documents that
   supersede it *)
NextSupersede ==
  \/ CreateOne
  \/ PlaceLegacyOne
  \/ UpdateStatusFew
  \/ SupersedeMore

SpecSupersede == Init /\ [][NextSupersede]_vars

----------------------------------------------------------------------------
(* the codec applied to mappings and to contents *)

StrInputs ==
  {<<"proposed">>, <<"null">>, <<>>, <<"~">>, <<SP, "proposed">>,
   <<"[", "a", "]">>, <<SQ, "a", SQ>>, <<"a", ":", SP, "b">>}

ListInputs ==
  {<<>>, <<StrValue(<<"ADR-001">>)>>,
   <<StrValue(<<"ADR-001">>), StrValue(<<"FDP-002">>)>>,
   <<StrValue(<<"a", ",", "b">>)>>, <<StrValue(<<>>)>>}

ValueInputs ==
  {NoneValue} \cup {StrValue(s) : s \in StrInputs} \cup {ListValue(l) : l \in ListInputs}

KeyInputs == {<<"status">>, <<"related">>}

EntryInputs == {[key |-> k, value |-> v] : k \in KeyInputs, v \in ValueInputs}

MappingInputs ==
  UNION {{m \in [1..n -> EntryInputs] : \A i, j \in 1..n : m[i].key = m[j].key => i = j}
         : n \in 0..MaxKeys}

(* a content whose first line is the delimiter, with the block given *)
Delimited(block) == <<"---", NL>> \o block \o <<NL, "---", NL, "b", NL>>

ContentInputs ==
  {[block |-> "none", content |-> <<"a", NL>>],
   [block |-> "none", content |-> <<"---", NL, "status", ":", SP, "a", NL>>],
   [block |-> "none", content |-> <<"a", NL, "---", NL, "status", ":", SP, "a", NL, "---", NL>>],
   [block |-> "mapping", content |-> Delimited(<<"status", ":", SP, "a">>)],
   [block |-> "mapping",
    content |-> Delimited(<<"status", ":", SP, "a", NL, "related", ":", NL, "-", SP, "ADR-001">>)],
   [block |-> "list", content |-> Delimited(<<"-", SP, "a">>)],
   [block |-> "list", content |-> Delimited(<<"[", "]">>)],
   [block |-> "scalar", content |-> Delimited(<<"a">>)],
   [block |-> "malformed", content |-> Delimited(<<"status", ":", SP, "[", "a">>)],
   [block |-> "malformed", content |-> Delimited(<<"status", ":", SP, SQ, "a">>)],
   [block |-> "malformed", content |-> Delimited(<<"status", ":", SP, "a", NL, "b">>)]}

CodecInputs ==
  {[NoCodec EXCEPT !.HAS_YAML = y, !.source = "metadata", !.step = "given", !.data = m]
     : y \in BOOLEAN, m \in MappingInputs}
  \cup
  {[NoCodec EXCEPT !.HAS_YAML = y, !.source = "content", !.step = "given",
                  !.block = c.block, !.content = c.content]
     : y \in BOOLEAN, c \in ContentInputs}

InitCodec ==
  /\ files = {}
  /\ config = NoConfig
  /\ today = 0
  /\ last = NoOp
  /\ numbersLog = [t \in Types |-> <<>>]
  /\ appendLog = [t \in Types |-> <<>>]
  /\ codec \in CodecInputs
  /\ upgrade = NoUpgrade
  /\ racers = NoRacers
  /\ pending = NoPending

RenderMetadata ==
  /\ codec.source = "metadata" /\ codec.step = "given"
  /\ codec' = [codec EXCEPT !.step = "rendered",
                            !.content = render_frontmatter(codec.HAS_YAML, codec.data)]
  /\ UNCHANGED <<pending, racers, files, upgrade, config, today, last, numbersLog, appendLog>>

ParseContent ==
  /\ \/ codec.source = "content" /\ codec.step = "given"
     \/ codec.step = "rendered"
  /\ \E r \in {parse_frontmatter(codec.HAS_YAML, codec.content)} :
        codec' = [codec EXCEPT !.step = "parsed", !.metadata = r.metadata, !.body = r.body]
  /\ UNCHANGED <<pending, racers, files, upgrade, config, today, last, numbersLog, appendLog>>

NextCodec ==
  \/ RenderMetadata
  \/ ParseContent

SpecCodec == InitCodec /\ [][NextCodec]_vars

(* every status that is valid for some type *)
ValidStatuses == UNION {get_valid_statuses(t) : t \in Types}

UpdateStatusValid == \E id \in IdInputs, s \in ValidStatuses : UpdateStatus(id, s)

(* one document and the statuses it is taken through *)
NextTransitions ==
  \/ CreateOne
  \/ PlaceLegacyOne
  \/ UpdateStatusValid

SpecTransitions == Init /\ [][NextTransitions]_vars

(* the manifests: entries of distinct versions in any order, each without a
   script, with its script, or with a script that is not on disk *)
ManifestVersions == {"0.2.1", "0.9.0", "0.10.0"}

EntryKinds ==
  {[version |-> v, migration |-> k[1], script |-> k[2]]
     : v \in ManifestVersions, k \in {<<FALSE, FALSE>>, <<TRUE, TRUE>>, <<TRUE, FALSE>>}}

ManifestInputs ==
  UNION {{m \in [1..n -> EntryKinds] : \A i, j \in 1..n : m[i].version = m[j].version => i = j}
         : n \in 0..MaxManifest}

InitUpgrade ==
  /\ files = {}
  /\ config = NoConfig
  /\ today = 0
  /\ last = NoOp
  /\ numbersLog = [t \in Types |-> <<>>]
  /\ appendLog = [t \in Types |-> <<>>]
  /\ codec = NoCodec
  /\ upgrade \in {[NoUpgrade EXCEPT !.manifest = m] : m \in ManifestInputs}
  /\ racers = NoRacers
  /\ pending = NoPending

PlaceLegacyDoc == PlaceLegacy("adr", "Use X", "Accepted", MaxDocs)

UpgradeOp ==
  \E target \in ManifestVersions, dry \in BOOLEAN, broken \in SUBSET files :
     Upgrade(target, dry, broken)

(* a project with a document of the earlier schema, upgraded under a
   manifest *)
NextUpgrade ==
  \/ PlaceLegacyDoc
  \/ UpgradeOp

SpecUpgrade == InitUpgrade /\ [][NextUpgrade]_vars

(* a markdown file that is no document: notes.md in a type's directory or
   in another one *)
PlaceStray(dir, cap) ==
  /\ Cardinality(files) < cap
  /\ files' = WriteFile(files,
        [type |-> dir, loc |-> "active", num |-> 0, width |-> 0, slug |-> "notes",
         fm |-> NoFrontmatter,
         body |-> [status |-> "", sections |-> TRUE, archived |-> 0,
                   addenda |-> 0, entries |-> <<>>]])
  /\ last' = Outcome("legacy", NullId, "notes", "ok")
  /\ UNCHANGED <<pending, racers, codec, upgrade, config, today, numbersLog, appendLog>>

PlaceLegacyAny ==
  \E t \in Types, st \in LegacyStatuses : PlaceLegacy(t, "Use X", st, MaxFiles)

PlaceStrayAny == \E dir \in {"adr", "other"} : PlaceStray(dir, MaxFiles)

CreateAny == \E t \in Types : Create(t, "Use X", MaxFiles)

RunMigrateOp == \E broken \in SUBSET files : RunMigrate(broken)

(* documents of the earlier schema and of the current one, other files, and
   the script of 0.2.1 run on them *)
NextMigrate ==
  \/ PlaceLegacyAny
  \/ PlaceStrayAny
  \/ CreateAny
  \/ RunMigrateOp
  \/ RunDryRun

SpecMigrate == Init /\ [][NextMigrate]_vars

(* every operation of the lifecycle, on documents the program created *)
LifecycleTypes == {"adr"}

CreateDoc == \E t \in LifecycleTypes : Create(t, "Use X", MaxFiles)

(* an addendum on the first document, and the first two related both ways *)
AppendFirst == AppendAddendum(format_doc_id("adr", 1), "Note", "details")

RelateFirst == Relate(format_doc_id("adr", 1), <<format_doc_id("adr", 2)>>, TRUE)

NextLifecycle ==
  \/ CreateDoc
  \/ UpdateStatusFew
  \/ AppendFirst
  \/ RelateFirst
  \/ SupersedeOp
  \/ ArchiveOp

SpecLifecycle == Init /\ [][NextLifecycle]_vars

(* files put into a type's directory or its archive/ child by hand, under
   any number; other files beside them; and the locator of edit.py asked
   for a type and a number *)
FindTypes == {"adr", "fdp"}

PlaceAt(t, loc, n, title, cap) ==
  /\ Cardinality(files) < cap
  /\ ~PathExists(files, t, loc, n, slugify(title))
  /\ files' = WriteFile(files,
        [type |-> t, loc |-> loc, num |-> n, width |-> format_width(n),
         slug |-> slugify(title), fm |-> NoFrontmatter,
         body |-> [status |-> "Accepted", sections |-> TRUE, archived |-> 0,
                   addenda |-> 0, entries |-> <<>>]])
  /\ last' = Outcome("place", format_doc_id(t, n), title, "ok")
  /\ UNCHANGED <<pending, racers, codec, upgrade, config, today, numbersLog, appendLog>>

PlaceAny ==
  \E t \in FindTypes, loc \in {"active", "archive"}, n \in 1..MaxFiles, title \in Titles :
     PlaceAt(t, loc, n, title, MaxFiles)

PlaceNotes == PlaceStray("adr", MaxFiles)

Find(t, n, include_archive) ==
  /\ IF find_document(files, t, n, include_archive) = {}
     THEN last' = [Outcome("find", format_doc_id(t, n), "", "NotFound")
                     EXCEPT !.opt = include_archive]
     ELSE \E f \in find_document(files, t, n, include_archive) :
            last' = [Outcome("find", format_doc_id(t, n), f.slug, "ok")
                       EXCEPT !.opt = include_archive, !.status = f.loc, !.num = f.num]
  /\ UNCHANGED <<pending, racers, codec, upgrade, config, files, today, numbersLog, appendLog>>

FindOp ==
  \E t \in FindTypes, n \in 0..MaxFiles, include_archive \in BOOLEAN :
     Find(t, n, include_archive)

NextFind == PlaceAny \/ PlaceNotes \/ FindOp

SpecFind == Init /\ [][NextFind]_vars

(* invocations of create for one type, each run once, their steps
   interleaved, and the day going by between them *)
RaceScanOp == \E r \in Racers, title \in Titles : RaceScan(r, "adr", title)

RaceCheckOp == \E r \in Racers : RaceCheck(r)

RaceWriteOp == \E r \in Racers : RaceWrite(r)

NextRace == RaceScanOp \/ RaceCheckOp \/ RaceWriteOp \/ NextDay

SpecRace == Init /\ [][NextRace]_vars

(* a document, created or of the earlier schema, superseded one write at a
   time, the process ending between writes or not, and run again *)
SupersedeIds == IdInputs \cup {[p |-> "adr", n |-> 1]}

SupersedeBeginOp == \E id \in SupersedeIds : SupersedeBegin(id, "New X!", MaxFiles + 1)

NextInterrupt ==
  \/ CreateOne
  \/ PlaceLegacyOne
  \/ SupersedeBeginOp
  \/ SupersedeWrite
  \/ SupersedeInterrupt

SpecInterrupt == Init /\ [][NextInterrupt]_vars

(* one document, created or of the earlier schema and migrated, days going
   by, and its status updated *)
MigrateAll == RunMigrate({})

UpdateStatusSome ==
  \E id \in IdInputs, s \in {"accepted", "completed", "bogus"} : UpdateStatus(id, s)

NextMalformed ==
  \/ CreateOne
  \/ PlaceLegacyOne
  \/ MigrateAll
  \/ UpdateStatusSome
  \/ NextDay

SpecMalformed == Init /\ [][NextMalformed]_vars

(* files put into the directories by hand, and archive run on them *)
NextCollision == PlaceAny \/ ArchiveOp

SpecCollision == Init /\ [][NextCollision]_vars

(* two documents, and relations asked for in lists where one target is not
   on disk *)
PartialLists ==
  {<<a, MissingId>> : a \in DiskIds} \cup {<<MissingId, a>> : a \in DiskIds}

RelatePartial ==
  \E id \in DiskIds, related_ids \in PartialLists, bidirectional \in BOOLEAN :
     /\ Relate(id, related_ids, bidirectional)
     /\ SumLen([f \in files' |-> f.fm.related], files') <= MaxLinks

NextRelatePartial ==
  \/ CreateDoc
  \/ PlaceLegacyAdr
  \/ RelatePartial

SpecRelatePartial == Init /\ [][NextRelatePartial]_vars

(* create and supersede alone, on one day or another *)
SupersedeTyped == \E id \in SupersedeIds : Supersede(id, "New X!", MaxFiles + 1)

NextChain == CreateOp \/ SupersedeTyped \/ NextDay

SpecChain == Init /\ [][NextChain]_vars

(* a created document superseded one write at a time, the run interrupted
   or not, and supersede run again *)
SupersedeAgain == \E id \in SupersedeIds, title \in {"New X!", "Use X"} :
                     SupersedeBegin(id, title, MaxFiles + 1)

NextRerun ==
  \/ CreateOne
  \/ SupersedeAgain
  \/ SupersedeWrite
  \/ SupersedeInterrupt

SpecRerun == Init /\ [][NextRerun]_vars

(* files put into a type's directory or its archive/ child by hand, their
   number written with three digits or with another count of digits, and
   the locators of edit.py and of append.py asked for a number *)
HandWidths == {1, 4}

PlaceUnpadded(t, loc, n, w, title, cap) ==
  /\ Cardinality(files) < cap
  /\ w # format_width(n)
  /\ files' = WriteFile(files,
        [type |-> t, loc |-> loc, num |-> n, width |-> w,
         slug |-> slugify(title), fm |-> NoFrontmatter,
         body |-> [status |-> "Accepted", sections |-> TRUE, archived |-> 0,
                   addenda |-> 0, entries |-> <<>>]])
  /\ last' = Outcome("place", format_doc_id(t, n), title, "ok")
  /\ UNCHANGED <<pending, racers, codec, upgrade, config, today, numbersLog, appendLog>>

PlacePadded ==
  \E loc \in {"active", "archive"}, n \in 1..MaxFiles :
     PlaceAt("adr", loc, n, "Use X", MaxFiles)

PlaceUnpaddedAny ==
  \E loc \in {"active", "archive"}, n \in 1..MaxFiles, w \in HandWidths :
     PlaceUnpadded("adr", loc, n, w, "Use X", MaxFiles)

(* find_document of append.py on its own: the path it returns or the
   FileNotFoundError it raises *)
AppendFind(id) ==
  LET t == parse_doc_id(id)
  IN
  /\ IF append_find_document(files, t, id.n) = {}
     THEN last' = Outcome("append_find", id, "", "NotFound")
     ELSE \E f \in append_find_document(files, t, id.n) :
            last' = [Outcome("append_find", id, f.slug, "ok")
                       EXCEPT !.status = f.loc, !.num = f.num]
  /\ UNCHANGED <<pending, racers, codec, upgrade, config, files, today, numbersLog, appendLog>>

AppendFindOp == \E n \in 1..MaxFiles : AppendFind(format_doc_id("adr", n))

EditFindOp == \E n \in 1..MaxFiles : Find("adr", n, TRUE)

NextLocators == PlacePadded \/ PlaceUnpaddedAny \/ AppendFindOp \/ EditFindOp

SpecLocators == Init /\ [][NextLocators]_vars

----------------------------------------------------------------------------
(* Properties *)

FilesOf(t) == {f \in files : f.type = t}

NoDuplicates(seq) ==
  \A i, j \in 1..Len(seq) : i # j => seq[i] # seq[j]

(* the files an id names, in either directory *)
Named(fs, id) ==
  {f \in fs : f.type = parse_doc_id(id) /\ f.num = id.n}

(* C1: from the empty project, under create and archive alone, the k-th
   successful create of a type is assigned number k, the numbers of the
   type's files (active or archived) are exactly 1..N with no number shared
   by two files, and the next number stays N + 1 through every archive. *)
C1_NumbersSequential ==
  \A t \in Types :
     /\ \A k \in 1..Len(numbersLog[t]) : numbersLog[t][k] = k
     /\ {f.num : f \in FilesOf(t)} = 1..Len(numbersLog[t])
     /\ \A f, g \in FilesOf(t) : f.num = g.num => f = g
     /\ find_next_number(files, t) = Len(numbersLog[t]) + 1

(* a create that followed the archiving of the type's only document *)
C1_Witness ==
  /\ last.op = "create" /\ last.result = "ok" /\ last.num = 2
  /\ \E f, g \in files :
       /\ f.type = g.type /\ f.loc = "archive" /\ f.num = 1
       /\ g.loc = "active" /\ g.num = 2

(* C2: a number assigned by a create of a type is never assigned again by a
   later create of that type, also when its file was archived or removed. *)
C2_NumberNeverReused ==
  \A t \in Types : NoDuplicates(numbersLog[t])

(* C3, as claimed: on an existing active document with a Status section,
   update_status(id, s) fails with InvalidStatus, the document unchanged,
   for every s that is not a valid status of the type in some spelling of
   upper and lower case, and succeeds with the content updated for every s
   that is. *)
C3_StatusLegalityByCase ==
  [][(/\ last'.op = "update_status"
      /\ \E f \in Named(files, last'.id) : f.loc = "active" /\ f.body.status # "")
     => IF Lower(last'.arg) \in LowerAll(get_valid_statuses(parse_doc_id(last'.id)))
        THEN /\ last'.result = "ok"
             /\ \E g \in Named(files', last'.id) :
                   /\ g.loc = "active"
                   /\ g.body.status = Title(last'.arg)
                   /\ g.fm.present => g.fm.status = Lower(last'.arg)
        ELSE /\ last'.result = "InvalidStatus"
             /\ files' = files]_vars

(* C3, amended: the same, s compared ignoring case and surrounding
   whitespace. *)
C3_StatusLegality ==
  [][(/\ last'.op = "update_status"
      /\ \E f \in Named(files, last'.id) : f.loc = "active" /\ f.body.status # "")
     => IF Strip(Lower(last'.arg)) \in LowerAll(get_valid_statuses(parse_doc_id(last'.id)))
        THEN /\ last'.result = "ok"
             /\ \E g \in Named(files', last'.id) :
                   /\ g.loc = "active"
                   /\ g.body.status = Title(last'.arg)
                   /\ g.fm.present => g.fm.status = Lower(last'.arg)
        ELSE /\ last'.result = "InvalidStatus"
             /\ files' = files]_vars

(* an update to a status spelled in upper case went through *)
C3_Witness ==
  /\ last.op = "update_status" /\ last.arg = "ACCEPTED" /\ last.result = "ok"
  /\ \E f \in Named(files, last.id) : f.fm.present /\ f.fm.status = "accepted"

(* the status of a document as the claims read it: the frontmatter status,
   else the body's Status value, else unknown *)
DocStatus(f) ==
  IF f.fm.present THEN f.fm.status
  ELSE IF f.body.status # "" THEN Strip(f.body.status)
  ELSE "unknown"

(* C4: after any sequence of create, update_status, archive, supersede and
   relate operations, every document's status is one of its type's valid
   statuses. *)
C4_StatusAlwaysValid ==
  \A f \in files : Lower(DocStatus(f)) \in LowerAll(get_valid_statuses(f.type))

(* C5: archive(id) on a document that is already under archive/ fails with
   AlreadyArchived and changes nothing. *)
C5_ArchiveRefusesArchived ==
  [][(/\ last'.op = "archive"
      /\ Named(files, last'.id) # {}
      /\ \A f \in Named(files, last'.id) : f.loc = "archive")
     => /\ last'.result = "AlreadyArchived"
        /\ files' = files]_vars

(* C6: after a successful archive(id) the document's status is the archived
   value in its frontmatter and in its body, and its body holds one Archived
   marker. *)
C6_ArchiveForcesStatus ==
  (last.op = "archive" /\ last.result = "ok")
  => \E f \in Named(files, last.id) :
        /\ f.loc = "archive"
        /\ f.fm.present => Lower(f.fm.status) = "archived"
        /\ Lower(f.body.status) = "archived"
        /\ f.body.archived = 1

(* C7: a document under archive/ is changed by no operation other than
   append_addendum. *)
C7_ArchivedImmutable ==
  [][\A f \in files :
        (f.loc = "archive" /\ last'.op # "append") => f \in files']_vars

(* C8: append_addendum succeeds for every id that names a document, active or
   archived, whatever its status; the file stays where it is, its
   frontmatter changes in the modified date at most, its body keeps its
   Status value and its Archived markers and gains one subsection at the end;
   no other file changes. *)
C8_AppendAlwaysPermitted ==
  [][(last'.op = "append" /\ Named(files, last'.id) # {})
     => /\ last'.result = "ok"
        /\ \E f \in Named(files, last'.id), g \in files' :
              /\ SamePath(f, g)
              /\ files' \ {g} = files \ {f}
              /\ g.fm = [f.fm EXCEPT !.modified = g.fm.modified]
              /\ ~f.fm.present => g.fm = f.fm
              /\ g.body.status = f.body.status
              /\ g.body.archived = f.body.archived
              /\ g.body.sections = f.body.sections
              /\ Len(g.body.entries) = Len(f.body.entries) + 1
              /\ SubSeq(g.body.entries, 1, Len(f.body.entries)) = f.body.entries]_vars

(* an addendum went onto an archived document on a later day *)
C8_Witness ==
  /\ last.op = "append" /\ last.result = "ok"
  /\ \E f \in Named(files, last.id) :
       /\ f.loc = "archive" /\ f.fm.present
       /\ f.fm.modified = 1 /\ Len(f.body.entries) = 1

(* the subsections append_addendum was called for on f, in call order *)
LoggedEntries(f) ==
  LET calls == SelectSeq(appendLog[f.type], LAMBDA c : c.num = f.num)
  IN  [i \in 1..Len(calls) |-> calls[i].entry]

(* C9: after n successful append_addendum calls on a document its body holds
   exactly one Addenda marker followed by the n dated subsections of the
   calls, in call order, one per call also when two calls are identical. *)
C9_AddendaStructure ==
  \A f \in files :
     /\ f.body.entries = LoggedEntries(f)
     /\ Len(LoggedEntries(f)) > 0 => f.body.addenda = 1

(* two identical calls left two subsections *)
C9_Witness ==
  \E f \in files :
     /\ Len(f.body.entries) = 2
     /\ f.body.entries[1] = f.body.entries[2]
     /\ f.body.addenda = 1

(* C10: edit_gate(id) without force reports the document editable exactly
   when its status is in its type's editable set, ignoring case, and its
   file is not under archive/. *)
C10_EditableIff ==
  (last.op = "edit_gate" /\ last.result = "ok" /\ ~last.opt)
  => \E f \in Named(files, last.id) :
        last.flag <=>
          (/\ Lower(DocStatus(f)) \in LowerAll(get_type_config(f.type).editable)
           /\ f.loc # "archive")

(* the gate opened for a document without frontmatter whose body says
   Proposed *)
C10_Witness ==
  /\ last.op = "edit_gate" /\ last.result = "ok" /\ ~last.opt /\ last.flag
  /\ \E f \in Named(files, last.id) : ~f.fm.present /\ f.body.status = "Proposed"

(* C11: edit_gate changes no document and not the configuration, whatever it
   answers; on a locked document (status not editable, or under archive/) it
   answers editable with a warning when forced and not editable with the
   locked reason when not forced. *)
C11_EditGateReadOnly ==
  [][last'.op = "edit_gate"
     => /\ files' = files
        /\ config' = config
        /\ \A f \in Named(files, last'.id) :
              (~(/\ Lower(DocStatus(f)) \in LowerAll(get_type_config(f.type).editable)
                 /\ f.loc # "archive"))
              => /\ last'.result = "ok"
                 /\ last'.opt => (last'.flag /\ last'.status = "warning")
                 /\ ~last'.opt => (~last'.flag /\ last'.status = "locked")]_vars

(* a forced gate on an archived document answered with the warning *)
C11_Witness ==
  /\ last.op = "edit_gate" /\ last.result = "ok" /\ last.opt
  /\ last.flag /\ last.status = "warning"
  /\ \E f \in Named(files, last.id) : f.loc = "archive"

(* the documents whose supersedes field names f *)
SupersededBy(fs, f) ==
  {g \in fs : g.fm.present /\ g.type = f.type
               /\ g.fm.supersedes = format_doc_id(f.type, f.num)}

(* C12: supersede(old_id, title) on a document whose superseded_by is set
   fails with AlreadyConflicted and changes nothing, no document created;
   and no document is superseded by more than one document. *)
C12_SupersedeOnce ==
  [][/\ (/\ last'.op = "supersede"
         /\ \E f \in Named(files, last'.id) :
               f.fm.present /\ f.fm.superseded_by # NullId)
        => (last'.result = "AlreadyConflicted" /\ files' = files)
     /\ \A f \in files' : Cardinality(SupersededBy(files', f)) <= 1]_vars

(* C13: after a successful supersede(old_id, title) a new document of the old
   one's type exists under the type's next number with supersedes = old_id,
   and the old document has superseded_by = the new document's id, the
   superseded status in its frontmatter and in its body, and one more
   Addenda subsection, titled Superseded. *)
C13_SupersedeLinks ==
  [][(last'.op = "supersede" /\ last'.result = "ok")
     => \E old \in Named(files, last'.id) :
          LET t == old.type
              n == find_next_number(files, t)
          IN  /\ last'.num = n
              /\ \E new \in files' :
                    /\ new.type = t /\ new.num = n /\ new.loc = "active"
                    /\ new.fm.present /\ new.fm.supersedes = last'.id
              /\ \E o \in files' :
                    /\ SamePath(o, old)
                    /\ o.fm.present /\ o.fm.superseded_by = format_doc_id(t, n)
                    /\ Lower(o.fm.status) = "superseded"
                    /\ Lower(o.body.status) = "superseded"
                    /\ Len(o.body.entries) = Len(old.body.entries) + 1
                    /\ SubSeq(o.body.entries, 1, Len(old.body.entries)) = old.body.entries
                    /\ o.body.entries[Len(o.body.entries)].title = "Superseded"]_vars

(* the entries of a related list, upper-cased *)
RelatedUpper(f) == [i \in 1..Len(f.fm.related) |-> Upper(f.fm.related[i])]

(* relate(id, targets, bidirectional) has succeeded before: every target
   resolves and what the call writes is in place *)
AlreadyRelated(fs, id, targets, bidirectional) ==
  /\ \A i \in 1..Len(targets) : Resolve(fs, targets[i]) # {}
  /\ \A f \in Resolve(fs, id) :
        f.fm.present => \A i \in 1..Len(targets) : InSeq(Upper(targets[i]), RelatedUpper(f))
  /\ bidirectional =>
        \A i \in 1..Len(targets) : \A g \in Resolve(fs, targets[i]) :
           g.fm.present => InSeq(Upper(id), RelatedUpper(g))

(* C14: a relate(id, targets, bidirectional) call repeated after it has
   succeeded reports every target as already present, none as added, and
   writes no file: no related list and no modified date changes. *)
C14_RelateIdempotent ==
  [][(/\ last'.op = "relate"
      /\ Resolve(files, last'.id) # {}
      /\ AlreadyRelated(files, last'.id, last'.targets, last'.opt))
     => /\ last'.result = "ok"
        /\ last'.added = <<>>
        /\ last'.present = last'.targets
        /\ files' = files]_vars

(* a bidirectional relate repeated once its links were in place on both
   sides *)
C14_Witness ==
  /\ last.op = "relate" /\ last.result = "ok" /\ last.opt
  /\ last.present = last.targets /\ last.added = <<>>
  /\ \E f \in Resolve(files, last.id), g \in Resolve(files, last.targets[1]) :
        /\ f # g
        /\ InSeq(Upper(last.targets[1]), f.fm.related)
        /\ InSeq(Upper(last.id), g.fm.related)

(* C15: relate(id, targets, bidirectional = false) changes no file but the
   source; after a successful relate(id, targets, bidirectional = true)
   every target is in the source's related list and the source's id is in
   every target's related list. *)
C15_RelateDirection ==
  [][last'.op = "relate"
     => /\ ~last'.opt =>
              \A f \in files : f \notin Resolve(files, last'.id) => f \in files'
        /\ (last'.opt /\ last'.result = "ok") =>
              \A i \in 1..Len(last'.targets) :
                 /\ \A f \in Resolve(files', last'.id) :
                       InSeq(Upper(last'.targets[i]), RelatedUpper(f))
                 /\ \A g \in Resolve(files', last'.targets[i]) :
                       InSeq(Upper(last'.id), RelatedUpper(g))]_vars

(* no two entries of the list are equal ignoring case *)
NoDuplicatesIgnoringCase(seq) ==
  \A i, j \in 1..Len(seq) : Upper(seq[i]) = Upper(seq[j]) => i = j

(* C16: after a relate operation on documents whose related lists hold no
   duplicates, no related list holds two entries equal ignoring case, the
   entries the operation added are upper-cased, and the entries that were
   there are still there, in the same order, before the new ones. *)
C16_RelatedLists ==
  [][(/\ last'.op = "relate"
      /\ \A g \in files : NoDuplicatesIgnoringCase(g.fm.related))
     => \A f \in files' :
          /\ NoDuplicatesIgnoringCase(f.fm.related)
          /\ \A g \in files :
                SamePath(g, f) =>
                  /\ Len(g.fm.related) <= Len(f.fm.related)
                  /\ SubSeq(f.fm.related, 1, Len(g.fm.related)) = g.fm.related
                  /\ \A i \in (Len(g.fm.related) + 1)..Len(f.fm.related) :
                        f.fm.related[i] = Upper(f.fm.related[i])]_vars

(* an id typed in lower case was added behind an entry that was there *)
C16_Witness ==
  /\ last.op = "relate" /\ last.result = "ok"
  /\ Len(last.added) = 1
  /\ last.added[1] # Upper(last.added[1])
  /\ \E f \in Resolve(files, last.id) :
        /\ Len(f.fm.related) = 2
        /\ f.fm.related[2] = Upper(last.added[1])
        /\ f.fm.related[1] # f.fm.related[2]

(* C17: a mapping whose values are strings, nulls or lists of strings, once
   rendered and the text parsed, comes back as the same mapping (the same
   keys in the same order with the same values) with the empty body. *)
C17_RoundTrip ==
  (codec.source = "metadata" /\ codec.step = "parsed")
     => /\ codec.metadata = DictOf(codec.data)
        /\ codec.body = <<>>

(* C18: parse returns a mapping as metadata whatever the content is, and for
   a content without a delimited block, or whose delimited block is
   malformed YAML, a YAML list or a YAML scalar, the empty mapping with the
   whole content as the body. *)
C18_ParseFailsOpen ==
  (codec.source = "content" /\ codec.step = "parsed")
     => /\ codec.metadata.kind = "dict"
        /\ codec.block # "mapping" =>
              /\ codec.metadata = DictOf(<<>>)
              /\ codec.body = codec.content

(* C19: update_status(id, s) with a status valid for the type, on a document
   whose file is under archive/, fails with AlreadyArchived and changes
   nothing. *)
C19_UpdateRefusesArchived ==
  [][(/\ last'.op = "update_status"
      /\ Named(files, last'.id) # {}
      /\ \A f \in Named(files, last'.id) : f.loc = "archive"
      /\ ~validate_status(parse_doc_id(last'.id), last'.arg))
     => /\ last'.result = "AlreadyArchived"
        /\ files' = files]_vars

(* what a successful update_status(id, s) leaves of the document f and
   reports; whole says whether a frontmatter status is demanded of every
   document or of those that carry frontmatter *)
StatusUpdated(f, whole) ==
  \E g \in files' :
     /\ SamePath(g, f)
     /\ g.loc = "active"
     /\ (whole \/ f.fm.present) => (g.fm.present /\ g.fm.status = Lower(last'.arg))
     /\ g.body.status = Title(last'.arg)
     /\ last'.status = (IF f.fm.present THEN f.fm.status ELSE Strip(f.body.status))
     /\ last'.flag = (Lower(last'.arg) \in LowerAll(get_type_config(f.type).archive_triggers))

(* C20, as stated: a successful update_status(id, s) sets the frontmatter
   status to s lower-cased and the body Status to s title-cased, leaves the
   file in the active directory, and returns the status the document had
   with a flag that is true exactly when s is an archive trigger of the
   type. *)
C20_FrontmatterStatusSet ==
  [][(last'.op = "update_status" /\ last'.result = "ok")
     => \A f \in find_document_active(files, parse_doc_id(last'.id), last'.id.n) :
           StatusUpdated(f, TRUE)]_vars

(* C20, amended: the same, the frontmatter status being set in a document
   that carries frontmatter; a document without frontmatter gets its body
   Status rewritten and no frontmatter. *)
C20_StatusUpdated ==
  [][(last'.op = "update_status" /\ last'.result = "ok")
     => \A f \in find_document_active(files, parse_doc_id(last'.id), last'.id.n) :
           /\ StatusUpdated(f, FALSE)
           /\ ~f.fm.present => \A g \in files' : SamePath(g, f) => ~g.fm.present]_vars

(* a status that is an archive trigger was set in frontmatter and body, and
   the document is still in the active directory *)
C20_Witness ==
  /\ last.op = "update_status" /\ last.result = "ok" /\ last.flag
  /\ \E g \in find_document_active(files, parse_doc_id(last.id), last.id.n) :
        /\ g.fm.present
        /\ g.fm.status = Lower(last.arg)
        /\ g.body.status = Title(last.arg)
        /\ g.body.status # g.fm.status

(* C21: update_status(id, s) on an active document that has a status
   succeeds for every s of the type's valid statuses, whatever status the
   document has: a final or archive-trigger status is left for the initial
   or an editable one like any other. *)
C21_AnyStatusFromAny ==
  [][(/\ last'.op = "update_status"
      /\ parse_doc_id(last'.id) # ""
      /\ last'.arg \in get_valid_statuses(parse_doc_id(last'.id)))
     => \A f \in find_document_active(files, parse_doc_id(last'.id), last'.id.n) :
           f.body.status # "" =>
              /\ last'.result = "ok"
              /\ last'.status = extract_status(f)
              /\ \E g \in files' : SamePath(g, f) /\ g.body.status = Title(last'.arg)]_vars

(* a document left an archive-trigger status for the initial status of its
   type *)
C21_Witness ==
  /\ last.op = "update_status" /\ last.result = "ok"
  /\ parse_doc_id(last.id) # ""
  /\ is_archive_trigger(parse_doc_id(last.id), last.status)
  /\ last.arg = get_type_config(parse_doc_id(last.id)).initial
  /\ \E g \in find_document_active(files, parse_doc_id(last.id), last.id.n) :
        g.fm.present /\ g.fm.status = last.arg

(* the versions of a sequence *)
VersionsOf(seq) == {seq[i] : i \in 1..Len(seq)}

(* the versions of the manifest that lie above current and not above target,
   by their numbers *)
Pending(manifest, current, target) ==
  {v \in {manifest[i].version : i \in 1..Len(manifest)} :
     version_lt_numeric(current, v) /\ ~version_lt_numeric(target, v)}

Ascending(seq) ==
  \A i, j \in 1..Len(seq) : i < j => version_lt_numeric(seq[i], seq[j])

(* C22: an upgrade(to) that runs through applies exactly the manifest
   entries whose version v has current < v <= to, in ascending order of
   version, whatever the order of the manifest and also for versions with
   components of several digits; it applies nothing when current >= to. *)
C22_UpgradeSelection ==
  [][(last'.op = "upgrade" /\ upgrade'.op = "upgrade" /\ upgrade'.result = 0)
     => /\ VersionsOf(upgrade'.applied)
             = Pending(upgrade.manifest, upgrade'.before, upgrade'.to)
        /\ Len(upgrade'.applied) = Cardinality(VersionsOf(upgrade'.applied))
        /\ Ascending(upgrade'.applied)]_vars

(* the manifest's entry of version v carries a script that is on disk *)
Scripted(manifest, v) ==
  \E i \in 1..Len(manifest) :
     manifest[i].version = v /\ manifest[i].migration /\ manifest[i].script

(* C23: when a migrate step reports failure during an upgrade, the upgrade
   stops there and reports failure: the failed entry is the last one
   applied and no later entry's migrate is invoked. *)
C23_AbortOnFailure ==
  [][(last'.op = "upgrade" /\ upgrade'.op = "upgrade")
     => /\ (upgrade'.invoked # <<>> /\ Unreadable(files, upgrade'.broken) # {})
             => upgrade'.result = 1
        /\ upgrade'.result = 1
             => /\ last'.result = "failed"
                /\ Len(upgrade'.invoked) = 1
                /\ upgrade'.applied = SubSeq(upgrade'.selected, 1, Len(upgrade'.applied))
                /\ upgrade'.applied[Len(upgrade'.applied)] = upgrade'.invoked[1]
                /\ \A i \in 1..(Len(upgrade'.applied) - 1) :
                      ~Scripted(upgrade.manifest, upgrade'.applied[i])]_vars

(* an upgrade stopped at a failed migrate with a scripted entry still to
   come *)
C23_Witness ==
  /\ upgrade.op = "upgrade" /\ upgrade.result = 1
  /\ Len(upgrade.selected) = 2
  /\ upgrade.applied = <<upgrade.selected[1]>>
  /\ upgrade.invoked = <<upgrade.selected[1]>>
  /\ Scripted(upgrade.manifest, upgrade.selected[2])

(* C24: the version stored in the configuration changes during an upgrade
   on full success only: after an upgrade(to) that ran through every
   selected entry it is to, and after an upgrade that stopped at a failed
   migration it is what it was before. *)
C24_VersionOnSuccess ==
  [][(last'.op = "upgrade" /\ upgrade'.op = "upgrade")
     => /\ (upgrade'.result = 0 /\ upgrade'.applied # <<>>)
             => get_project_version(config') = upgrade'.to
        /\ upgrade'.result = 1 => config' = config
        /\ upgrade'.applied = <<>> => config' = config]_vars

(* C25: a dry_run changes no document and not the configuration, and what
   it reports is what migrate would do from the same state: the documents
   it lists for frontmatter are the documents migrate rewrites, and the
   configuration change it announces is the one migrate makes. *)
C25_DryRunReport ==
  [][last'.op = "dry_run"
     => /\ files' = files
        /\ config' = config
        /\ \A m \in {migrate(files, config, "0.2.1", {}, today)} :
              /\ upgrade'.changes[1].add = {f \in files : f \notin m.files}
              /\ upgrade'.changes[1].config_to # ""
                    <=> get_project_version(m.config) # get_project_version(config)
              /\ upgrade'.changes[1].config_to # ""
                    => upgrade'.changes[1].config_to = get_project_version(m.config)]_vars

(* C26: a document of the earlier schema that the migration classifies and
   that has no Status heading gets, in the frontmatter written for it, the
   initial status of its type. *)
C26_DefaultStatus ==
  [][last'.op = "migrate"
     => \A f \in files :
           (/\ migratable(f)
            /\ f.body.status = ""
            /\ f \notin Unreadable(files, upgrade'.broken))
           => \E g \in files' :
                 /\ SamePath(g, f)
                 /\ g.fm.present
                 /\ g.fm.status = get_type_config(infer_doc_type(f)).initial]_vars

(* C27: migrate rewrites no document that carries frontmatter and none it
   cannot classify, and a migrate run on what a migrate left, on whatever
   day, changes no document. *)
C27_MigrateOnce ==
  [][last'.op = "migrate"
     => /\ \A f \in files :
             (f.fm.present \/ infer_doc_type(f) = "" \/ f.num = 0) => f \in files'
        /\ \A day \in 0..MaxDay :
             migrate(files', config', "0.2.1", upgrade'.broken, day).files = files']_vars

(* migrate ran where an earlier run had written frontmatter and the Addenda
   marker, beside a document created with frontmatter and a file it cannot
   classify *)
C27_Witness ==
  /\ last.op = "migrate"
  /\ upgrade.before = "0.2.1"
  /\ \E f \in files : f.fm.present /\ f.body.addenda = 1 /\ f.fm.status = "accepted"
  /\ \E f \in files : ~f.fm.present /\ ~migratable(f)

(* the file of fs with f's name in the archive/ child of f's directory *)
ArchivedCopy(fs, f) ==
  {g \in fs : SamePath(g, [f EXCEPT !.loc = "archive"])}

(* C28: no operation of the lifecycle, successful or failed, deletes a
   document: every file on disk before the step is on disk after it under
   the same name and with the same id, either at the same place or, having
   been in the active directory, in its archive/ child where no file of
   that name was before, never at both; a file in archive/ stays there; and
   no step leaves fewer files than it found. *)
C28_NothingDeleted ==
  [][/\ \A f \in files :
          LET stays == \E g \in files' : SamePath(g, f) /\ g.fm.id = f.fm.id
              moves == /\ f.loc = "active"
                       /\ ArchivedCopy(files, f) = {}
                       /\ \E g \in ArchivedCopy(files', f) : g.fm.id = f.fm.id
          IN  (stays \/ moves) /\ ~(stays /\ moves)
     /\ Cardinality(files') >= Cardinality(files)]_vars

(* a document was superseded and then archived: it is in archive/ and not in
   the active directory, and its successor is on disk *)
C28_Witness ==
  /\ last.op = "archive"
  /\ last.result = "ok"
  /\ \E f \in files :
        /\ f.loc = "archive"
        /\ f.fm.superseded_by # NullId
        /\ ~PathExists(files, f.type, "active", f.num, f.slug)
        /\ \E g \in files : g.fm.supersedes = f.fm.id

(* the files of a directory whose name matches the type's pattern with the
   number n *)
Matching(fs, t, loc, n) ==
  {f \in fs : f.type = t /\ f.loc = loc /\ f.num > 0 /\ f.num = n}

(* C29: find(type, number, include_archive) writes nothing; it returns a
   file of the active directory whenever that directory holds a file whose
   name matches the type's pattern with the number, whatever archive/
   holds; a file of archive/ when the active directory holds none, archive/
   holds one and include_archive is set; NotFound otherwise; and the number
   in the returned file's name is the number asked for. *)
C29_FindDocument ==
  [][last'.op = "find"
     => LET t == parse_doc_id(last'.id)
            n == last'.id.n
            act == Matching(files, t, "active", n)
            arc == Matching(files, t, "archive", n)
        IN  /\ files' = files
            /\ act # {}
                 => /\ last'.result = "ok"
                    /\ last'.status = "active"
                    /\ \E f \in act : f.slug = last'.arg
            /\ (act = {} /\ arc # {} /\ last'.opt)
                 => /\ last'.result = "ok"
                    /\ last'.status = "archive"
                    /\ \E f \in arc : f.slug = last'.arg
            /\ (act = {} /\ (arc = {} \/ ~last'.opt))
                 => last'.result = "NotFound"
            /\ last'.result = "ok" => last'.num = n]_vars

(* the number is in both directories and the active file was returned *)
C29_Witness ==
  /\ last.op = "find"
  /\ last.result = "ok"
  /\ last.status = "active"
  /\ last.opt
  /\ Matching(files, parse_doc_id(last.id), "archive", last.id.n) # {}
  /\ Matching(files, parse_doc_id(last.id), "active", last.id.n) # {}

(* the file an invocation writes to *)
TargetOf(fs, c) ==
  {f \in fs : /\ f.type = c.type /\ f.loc = "active" /\ f.num = c.num
              /\ f.width = format_width(c.num) /\ f.slug = slugify(c.title)}

(* C30: interleaved creates of one type are not kept apart.  An invocation
   that has scanned and found its target absent writes whatever happened
   since: it does not fail with AlreadyExists, and its file is on disk.
   When another invocation that obtained the same number has written
   already, then, the titles being different, two documents with that
   number are on disk, and, the titles being the same, the file the other
   wrote is replaced and no file is added. *)
C30_RaceUnprotected ==
  [][\A r \in Racers :
        (racers[r].pc = "checked" /\ racers'[r].pc # "checked")
        => /\ racers'[r].pc = "done"
           /\ last'.op = "create" /\ last'.result = "ok"
           /\ TargetOf(files', racers[r]) # {}
           /\ \A q \in Racers \ {r} :
                 (/\ racers[q].pc = "done"
                  /\ racers[q].type = racers[r].type
                  /\ racers[q].num = racers[r].num)
                 => IF racers[q].title = racers[r].title
                    THEN /\ TargetOf(files, racers[q]) # {}
                         /\ Cardinality(files') = Cardinality(files)
                         /\ last'.flag
                    ELSE /\ TargetOf(files', racers[q]) # {}
                         /\ TargetOf(files', racers[q]) # TargetOf(files', racers[r])]_vars

(* two invocations obtained the same number for the same title on different
   days, both finished without AlreadyExists, and one file is on disk: the
   second write replaced the first *)
C30_Witness ==
  /\ last.op = "create"
  /\ last.flag
  /\ \E r, q \in Racers :
        /\ r # q
        /\ racers[r].pc = "done" /\ racers[q].pc = "done"
        /\ racers[r].num = racers[q].num
        /\ racers[r].title = racers[q].title
        /\ Cardinality(TargetOf(files, racers[r])) = 1
        /\ Cardinality(files) = 1
        /\ \E f \in files : f.fm.modified = 1
  /\ \E t \in Types : Len(numbersLog[t]) = 2 /\ numbersLog[t][1] = numbersLog[t][2]

(* the id names the file: it parses to the file's type and number *)
NamesFile(id, f) == parse_doc_id(id) = f.type /\ id.n = f.num

(* C31: at every point of a supersede, between its writes and after an
   interruption, a document whose superseded_by is set has its successor on
   disk, and the successor's supersedes names it; superseded_by is never
   written before that.  What an interruption can leave is a new document
   that the old one does not point to. *)
C31_OldPointsLast ==
  \A old \in files :
     (old.fm.present /\ old.fm.superseded_by # NullId)
     => \E new \in files :
           /\ new.fm.present
           /\ new.fm.id = old.fm.superseded_by
           /\ NamesFile(new.fm.supersedes, old)

(* interrupted after the second write: the new document names the old one,
   which has no superseded_by *)
C31_Witness ==
  /\ last.op = "interrupt"
  /\ last.result = "linked"
  /\ \E old, new \in files :
        /\ old.fm.present
        /\ old.fm.superseded_by = NullId
        /\ new.fm.supersedes # NullId
        /\ NamesFile(new.fm.supersedes, old)

(* C32: update_status with a status valid for the type, on a document of
   the active directory whose body has no Status section, fails with
   MalformedDocument and writes nothing: the file, its frontmatter status
   and its modified date are what they were. *)
C32_MalformedUntouched ==
  [][(/\ last'.op = "update_status"
      /\ parse_doc_id(last'.id) # ""
      /\ ~validate_status(parse_doc_id(last'.id), last'.arg)
      /\ \E f \in find_document_active(files, parse_doc_id(last'.id), last'.id.n) :
            f.body.status = "")
     => /\ last'.result = "MalformedDocument"
        /\ files' = files]_vars

(* refused on a migrated document that has frontmatter and no Status
   section, on a later day than its last write *)
C32_Witness ==
  /\ last.op = "update_status"
  /\ last.result = "MalformedDocument"
  /\ \E f \in find_document_active(files, parse_doc_id(last.id), last.id.n) :
        /\ f.fm.present
        /\ f.body.status = ""
        /\ f.fm.status # Lower(last.arg)
        /\ f.fm.modified < today

(* C33: archive accepts the ids of the four types: for an id that the other
   operations parse and that names a document of the active directory,
   archive does not fail with InvalidId. *)
C33_ArchiveAllTypes ==
  [][(/\ last'.op = "archive"
      /\ parse_doc_id(last'.id) # ""
      /\ find_document_active(files, parse_doc_id(last'.id), last'.id.n) # {})
     => last'.result # "InvalidId"]_vars

(* C34: archive fails with AlreadyArchived only when the file it located is
   in an archive/ directory; a document of the active directory is archived
   whatever its title. *)
C34_AlreadyArchivedOnlyInArchive ==
  [][(last'.op = "archive" /\ last'.result = "AlreadyArchived")
     => \E f \in find_document_active(files, archive_parse_doc_id(last'.id), last'.id.n) :
           is_archived(f)]_vars

(* C35: an archive that fails with AlreadyExists leaves every file as it
   was: the document of the active directory keeps its content and its
   place. *)
C35_RefusedArchiveUntouched ==
  [][(last'.op = "archive" /\ last'.result = "AlreadyExists") => files' = files]_vars

(* the targets before the first one that does not resolve *)
ResolvedPrefix(fs, ts) ==
  SubSeq(ts, 1, Min({i \in 1..Len(ts) : Resolve(fs, ts[i]) = {}} \cup {Len(ts) + 1}) - 1)

(* C36: relate takes its targets one at a time in the order of the list.
   When a target does not resolve, relate fails with NotFound; the targets
   before it are on the main document, and the main document's id on them
   when bidirectional (on the documents that have frontmatter); and the
   files are what a relate to those targets alone leaves: nothing is
   written for the target that failed or for a later one. *)
C36_RelatePartial ==
  [][(/\ last'.op = "relate"
      /\ Resolve(files, last'.id) # {}
      /\ \E i \in 1..Len(last'.targets) : Resolve(files, last'.targets[i]) = {})
     => \E main \in Resolve(files, last'.id) :
        LET done == ResolvedPrefix(files, last'.targets)
            only == relate_loop([files |-> files, result |-> "ok",
                                 added |-> <<>>, present |-> <<>>],
                                main, last'.id, done, 1, last'.opt, today)
        IN  /\ last'.result = "NotFound"
            /\ files' = only.files
            /\ \A i \in 1..Len(done) :
                  /\ main.fm.present
                       => InSeq(Upper(done[i]), AtPath(files', main).fm.related)
                  /\ last'.opt
                       => \A g \in Resolve(files', done[i]) :
                             g.fm.present => InSeq(Upper(last'.id), g.fm.related)]_vars

(* a relate that failed on its second target after writing the first, both
   ways *)
C36_Witness ==
  /\ last.op = "relate"
  /\ last.result = "NotFound"
  /\ last.opt
  /\ Len(last.targets) = 2
  /\ Resolve(files, last.targets[2]) = {}
  /\ \E main \in Resolve(files, last.id) :
        /\ main.fm.related = <<Upper(last.targets[1])>>
        /\ \E g \in Resolve(files, last.targets[1]) :
              g # main /\ g.fm.related = <<Upper(last.id)>>

(* C37: the two lists a relate returns tell what it did to the main
   document: an id reported as added was not in the related entry before
   the call and is in it after; an id reported as already present was in it
   before and is in it after; whether the document has frontmatter or not. *)
C37_ListsTruthful ==
  [][(last'.op = "relate" /\ last'.result = "ok")
     => \E main \in Resolve(files, last'.id) :
        LET before == [i \in 1..Len(main.fm.related) |-> Upper(main.fm.related[i])]
            now == AtPath(files', main).fm.related
            after == [i \in 1..Len(now) |-> Upper(now[i])]
        IN  /\ \A i \in 1..Len(last'.added) :
                  /\ ~InSeq(Upper(last'.added[i]), before)
                  /\ InSeq(Upper(last'.added[i]), after)
            /\ \A i \in 1..Len(last'.present) :
                  /\ InSeq(Upper(last'.present[i]), before)
                  /\ InSeq(Upper(last'.present[i]), after)]_vars

(* the documents reached from the set S along supersedes links in at most k
   steps *)
RECURSIVE SupersededChain(_, _, _)
SupersededChain(fs, S, k) ==
  IF k = 0 THEN S
  ELSE SupersededChain(fs,
         S \cup {g \in fs : \E f \in S : NamesFile(f.fm.supersedes, g)}, k - 1)

(* C38: after creates and supersedes, a supersedes link goes to a smaller
   number of the same type and a superseded_by link to a greater one, so no
   document supersedes itself and no chain of supersedes links comes back
   to where it started. *)
C38_LinksDescend ==
  \A f \in files :
     /\ f.fm.supersedes # NullId
          => /\ parse_doc_id(f.fm.supersedes) = f.type
             /\ f.fm.supersedes.n < f.num
     /\ f.fm.superseded_by # NullId
          => /\ parse_doc_id(f.fm.superseded_by) = f.type
             /\ f.fm.superseded_by.n > f.num
     /\ f \notin SupersededChain(files,
                   {g \in files : NamesFile(f.fm.supersedes, g)}, Cardinality(files))

(* a chain of three: the third supersedes the second, which supersedes the
   first *)
C38_Witness ==
  \E f, g, h \in files :
     /\ NamesFile(h.fm.supersedes, g)
     /\ NamesFile(g.fm.supersedes, f)
     /\ f.fm.superseded_by = g.fm.id
     /\ g.fm.superseded_by = h.fm.id

(* a supersede run to its end on the old document of the run interrupted
   before it *)
RerunCompletes ==
  /\ last'.op = "supersede"
  /\ last'.result = "ok"
  /\ pending.pc = "linked"
  /\ pending.left # NoPath
  /\ pending.left_old = pending.old

(* C39 as stated: supersede run again after an interruption does not link
   the document the interrupted run created; it creates a further document
   with a greater number, two documents then carry supersedes naming the
   old document, and the old document points to the later one. *)
C39_TwoCarrySupersedes ==
  [][RerunCompletes
     => LET old == FileAt(files', pending.old)
            first == FileAt(files', pending.left)
            later == FileAt(files', pending.new)
        IN  /\ later.num > first.num
            /\ NamesFile(first.fm.supersedes, old)
            /\ NamesFile(later.fm.supersedes, old)
            /\ old.fm.superseded_by = later.fm.id]_vars

(* C39: supersede run again after an interruption does not link the
   document the interrupted run created; it creates a further document with
   a greater number and the old document points to that one.  The document
   of the interrupted run stays as the interruption left it: it carries
   supersedes naming the old document when the run was interrupted after
   the second write, and no supersedes when it was interrupted after the
   first. *)
C39_RerunCreatesAnother ==
  [][RerunCompletes
     => LET old == FileAt(files', pending.old)
            first == FileAt(files', pending.left)
            later == FileAt(files', pending.new)
        IN  /\ later.num > first.num
            /\ first = FileAt(files, pending.left)
            /\ IF pending.left_at = "linked"
               THEN NamesFile(first.fm.supersedes, old)
               ELSE first.fm.supersedes = NullId
            /\ NamesFile(later.fm.supersedes, old)
            /\ old.fm.superseded_by = later.fm.id]_vars

(* a run interrupted after its first write and a run to the end: the first
   new document has no supersedes, the second has, and the old document
   points to the second *)
C39_Witness ==
  /\ last.op = "supersede"
  /\ last.result = "ok"
  /\ pending.left_at = "created"
  /\ \E old, first, later \in files :
        /\ PathOf(first) = pending.left
        /\ PathOf(old) = pending.left_old
        /\ first.fm.supersedes = NullId
        /\ NamesFile(later.fm.supersedes, old)
        /\ old.fm.superseded_by = later.fm.id
        /\ later.num > first.num

(* C40: the locator of append.py resolves an id as the locator of edit.py,
   relate.py and supersede.py does: it finds a file exactly when a file of
   the type's directory or of its archive/ child has a name whose number
   equals the id's number as an integer, however many digits the name
   writes it with, and the file it returns is one the other locator
   returns. *)
C40_SameLocator ==
  [][last'.op = "append_find" =>
       LET t == parse_doc_id(last'.id)
           found == find_document(files, t, last'.id.n, TRUE)
       IN  IF found = {} THEN last'.result = "NotFound"
           ELSE /\ last'.result = "ok"
                /\ \E f \in found : /\ f.slug = last'.arg
                                    /\ f.loc = last'.status
                                    /\ f.num = last'.num]_vars

====
